---- MODULE Spec2Model ----
(***************************************************************************)
(* A model of the RSA-4096 library: the fixed-capacity big integers        *)
(* (rsa_4096_montgomery.c from line 1771 on), the Montgomery REDC context  *)
(* and its arithmetic (rsa_4096_montgomery.c, lines 1-992), the schoolbook *)
(* exponentiation (rsa_4096_arithmetic.c) and the key operations           *)
(* (rsa_4096_core.c).                                                      *)
(*                                                                         *)
(* Scale.  The program's limbs are 32 bits wide and bigint_div gives up    *)
(* after 1000000 subtractions.  TLC's integers are 32 bits, so the model   *)
(* keeps the code limb for limb but runs it on limbs of WordBits bits and  *)
(* with DivLimit subtractions, keeping the relation the program has        *)
(* between the two: DivLimit < 2^WordBits (1000000 < 2^32).  Both are      *)
(* bounds of the model.  Thresholds the program states in bits of its      *)
(* limbs (the trial-search limit of extended_gcd_full, the modulus sizes   *)
(* of hybrid_mod_exp) are scaled with the limbs, see ScaledBits.           *)
(* compute_word_inverse and the binary conversions are modelled at the     *)
(* program's own width, on words of four bytes: see                        *)
(* compute_word_inverse_u32 and bigint_to_binary.                          *)
(***************************************************************************)
EXTENDS Integers, Sequences, FiniteSets, TLC

VARIABLES ctx,      \* the montgomery_ctx_t the caller holds
          key,      \* the public rsa_4096_key_t
          privkey,  \* the private rsa_4096_key_t
          call      \* the last library call: its name, arguments and results

vars == <<ctx, key, privkey, call>>

-----------------------------------------------------------------------------
(* Bounds of the model *)

\* Width of a limb in the model (BIGINT_WORD_SIZE is 32 in the program).
WordBits == 5

\* Subtractions bigint_div performs before it gives up (1000000 in the
\* program, rsa_4096_montgomery.c line 2301).
DivLimit == 2

(* Program constants *)

BIGINT_4096_WORDS == 512

-----------------------------------------------------------------------------
(* bigint_t: `used` and the `words` array.  The array is held as the       *)
(* number whose base-2^WordBits digits are words[0], words[1], ...: every  *)
(* array has exactly one such number, and words[i] is digit i.  The `sign` *)
(* field is never read by the library and is left out.                     *)

WordBase == 2 ^ WordBits

WORD_MASK == WordBase - 1

\* 2^(WordBits * i), the weight of words[i].
Weight(i) == 2 ^ (WordBits * i)

\* Limbs whose weight TLC can hold; every limb above them is zero in any
\* value the model can reach.
Representable(i) == WordBits * i <= 30

\* a->words[i]
Word(a, i) ==
    IF Representable(i) THEN (a.words \div Weight(i)) % WordBase ELSE 0

\* a->words[i] = v
SetWord(a, i, v) ==
    IF ~Representable(i) /\ v = 0 THEN a
    ELSE [a EXCEPT !.words = @ - Word(a, i) * Weight(i) + v * Weight(i)]

\* The numeric value of the low `n` limbs.
LowWords(a, n) ==
    IF Representable(n) THEN a.words % Weight(n) ELSE a.words

\* The value a bigint_t stands for: its `used` low limbs.
Value(a) == LowWords(a, a.used)

\* The result of an operation that returned before writing its output.
NoWrite == [used |-> -1, words |-> 0]

\* void bigint_init(bigint_t *a)
bigint_init == [used |-> 0, words |-> 0]

\* void bigint_copy(bigint_t *dst, const bigint_t *src)
bigint_copy(src) == src

\* void bigint_set_u32(bigint_t *a, uint32_t val)
bigint_set_u32(val) ==
    IF val # 0 THEN [used |-> 1, words |-> val] ELSE bigint_init

RECURSIVE compare_from(_, _, _)
compare_from(a, b, i) ==
    IF i < 0 THEN 0
    ELSE IF Word(a, i) # Word(b, i)
         THEN (IF Word(a, i) > Word(b, i) THEN 1 ELSE -1)
         ELSE compare_from(a, b, i - 1)

\* int bigint_compare(const bigint_t *a, const bigint_t *b)
bigint_compare(a, b) ==
    IF a.used # b.used THEN a.used - b.used
    ELSE compare_from(a, b, a.used - 1)

\* int bigint_is_zero(const bigint_t *a)
bigint_is_zero(a) == (a.used = 0) \/ (a.used = 1 /\ Word(a, 0) = 0)

\* int bigint_is_one(const bigint_t *a)
bigint_is_one(a) == a.used = 1 /\ Word(a, 0) = 1

RECURSIVE strip_leading(_)
strip_leading(a) ==
    IF a.used > 0 /\ Word(a, a.used - 1) = 0
    THEN strip_leading([a EXCEPT !.used = @ - 1])
    ELSE a

\* void bigint_normalize(bigint_t *a)
bigint_normalize(a) ==
    LET s == strip_leading(a)
    IN  IF s.used = 0 THEN SetWord([s EXCEPT !.used = 1], 0, 0) ELSE s

RECURSIVE zero_words(_, _, _)
zero_words(a, i, n) ==
    IF i < n THEN zero_words(SetWord(a, i, 0), i + 1, n) ELSE a

\* int bigint_ensure_capacity(bigint_t *a, int min_words)
bigint_ensure_capacity(a, min_words) ==
    IF min_words > BIGINT_4096_WORDS THEN [ret |-> -2, val |-> a]
    ELSE LET z == zero_words(a, a.used, min_words)
         IN  [ret |-> 0,
              val |-> IF z.used < min_words THEN [z EXCEPT !.used = min_words]
                      ELSE z]

-----------------------------------------------------------------------------
(* Bit operations *)

RECURSIVE shift_right_loop(_, _, _, _, _)
shift_right_loop(r, a, i, word_shift, bit_shift) ==
    IF i >= a.used THEN r
    ELSE LET dest_idx == i - word_shift
             low == Word(a, i) \div (2 ^ bit_shift)
             high == IF bit_shift > 0 /\ i + 1 < a.used
                        /\ i + 1 < BIGINT_4096_WORDS
                     THEN (Word(a, i + 1) * 2 ^ (WordBits - bit_shift))
                              % WordBase
                     ELSE 0
         \* low and high share no bit, so the |= of the code is a sum
         IN  shift_right_loop(SetWord(r, dest_idx, low + high), a, i + 1,
                              word_shift, bit_shift)

\* int bigint_shift_right(bigint_t *r, const bigint_t *a, int bits)
bigint_shift_right(a, bits) ==
    IF bits = 0 THEN [ret |-> 0, val |-> bigint_copy(a)]
    ELSE IF bits < 0 THEN [ret |-> -2, val |-> bigint_init]
    ELSE LET word_shift == bits \div WordBits
             bit_shift == bits % WordBits
         IN  IF word_shift >= a.used THEN [ret |-> 0, val |-> bigint_init]
             ELSE LET r == shift_right_loop(bigint_init, a, word_shift,
                                            word_shift, bit_shift)
                  IN  [ret |-> 0,
                       val |-> bigint_normalize(
                                   [r EXCEPT !.used = a.used - word_shift])]

\* int bigint_get_bit(const bigint_t *a, int bit_pos)
bigint_get_bit(a, bit_pos) ==
    IF bit_pos < 0 THEN 0
    ELSE LET word_idx == bit_pos \div WordBits
             bit_idx == bit_pos % WordBits
         IN  IF word_idx >= a.used THEN 0
             ELSE (Word(a, word_idx) \div (2 ^ bit_idx)) % 2

RECURSIVE top_bit(_, _)
top_bit(top_word, bit_pos) ==
    IF bit_pos > 0 /\ (top_word \div (2 ^ bit_pos)) % 2 = 0
    THEN top_bit(top_word, bit_pos - 1)
    ELSE bit_pos

\* int bigint_bit_length(const bigint_t *a)
bigint_bit_length(a) ==
    IF bigint_is_zero(a) THEN 0
    ELSE LET word_idx == a.used - 1
         IN  word_idx * WordBits
                 + top_bit(Word(a, word_idx), WordBits - 1) + 1

-----------------------------------------------------------------------------
(* Addition, subtraction, multiplication *)

Max(x, y) == IF x > y THEN x ELSE y

\* A local of the C code: v is computed once, F reads it under its name.
With(v, F(_)) == F(v)

RECURSIVE add_loop(_, _, _, _, _)
add_loop(r, a, b, i, carry) ==
    IF ~(i < Max(a.used, b.used) \/ carry # 0)
    THEN [ret |-> 0, val |-> bigint_normalize(r)]
    ELSE IF i >= BIGINT_4096_WORDS THEN [ret |-> -2, val |-> r]
    ELSE LET sum == carry + (IF i < a.used THEN Word(a, i) ELSE 0)
                          + (IF i < b.used THEN Word(b, i) ELSE 0)
         IN  add_loop([SetWord(r, i, sum % WordBase) EXCEPT !.used = i + 1],
                      a, b, i + 1, sum \div WordBase)

\* int bigint_add(bigint_t *r, const bigint_t *a, const bigint_t *b)
bigint_add(a, b) == add_loop(bigint_init, a, b, 0, 0)

RECURSIVE sub_loop(_, _, _, _, _)
sub_loop(r, a, b, i, borrow) ==
    IF i >= a.used THEN r
    ELSE LET a_val == Word(a, i)
             b_val == IF i < b.used THEN Word(b, i) ELSE 0
             result == a_val - b_val - borrow  \* wraps in 64 bits when < 0
         IN  sub_loop([SetWord(r, i, result % WordBase) EXCEPT !.used = i + 1],
                      a, b, i + 1, IF result < 0 THEN 1 ELSE 0)

\* int bigint_sub(bigint_t *r, const bigint_t *a, const bigint_t *b)
bigint_sub(a, b) ==
    IF bigint_compare(a, b) < 0 THEN [ret |-> -2, val |-> NoWrite]
    ELSE [ret |-> 0, val |-> bigint_normalize(sub_loop(bigint_init, a, b, 0, 0))]

RECURSIVE mul_inner(_, _, _, _, _, _)
mul_inner(r, a, b, i, j, carry) ==
    IF ~(j < b.used \/ carry # 0) THEN r
    ELSE LET pos == i + j
         IN  IF pos >= BIGINT_4096_WORDS THEN r
             ELSE LET current == Word(r, pos)
                      product == IF j < b.used THEN Word(a, i) * Word(b, j)
                                 ELSE 0
                      sum == current + (product % WordBase) + carry
                      r1 == SetWord(r, pos, sum % WordBase)
                      r2 == IF pos >= r1.used THEN [r1 EXCEPT !.used = pos + 1]
                            ELSE r1
                  IN  mul_inner(r2, a, b, i, j + 1,
                                (sum \div WordBase) + (product \div WordBase))

RECURSIVE mul_outer(_, _, _, _)
mul_outer(r, a, b, i) ==
    IF i >= a.used THEN r
    ELSE mul_outer(mul_inner(r, a, b, i, 0, 0), a, b, i + 1)

\* int bigint_mul(bigint_t *r, const bigint_t *a, const bigint_t *b)
bigint_mul(a, b) ==
    IF bigint_is_zero(a) \/ bigint_is_zero(b)
    THEN [ret |-> 0, val |-> bigint_init]
    ELSE IF a.used + b.used > BIGINT_4096_WORDS
    THEN [ret |-> -2, val |-> bigint_init]
    ELSE [ret |-> 0, val |-> bigint_normalize(mul_outer(bigint_init, a, b, 0))]

-----------------------------------------------------------------------------
(* bigint_mul at the program's capacity.  A number of up to                *)
(* BIGINT_4096_WORDS limbs does not fit one integer, so here words is the  *)
(* array itself: element i + 1 is words[i].                                *)

\* void bigint_init(bigint_t *a), on the array
bigint_init_array == [used |-> 0, words |-> [i \in 1..BIGINT_4096_WORDS |-> 0] \o <<>>]

\* int bigint_is_zero(const bigint_t *a), on the array
bigint_is_zero_array(a) == (a.used = 0) \/ (a.used = 1 /\ a.words[1] = 0)

RECURSIVE strip_leading_array(_)
strip_leading_array(a) ==
    IF a.used > 0 /\ a.words[a.used] = 0
    THEN strip_leading_array([a EXCEPT !.used = @ - 1])
    ELSE a

\* void bigint_normalize(bigint_t *a), on the array
bigint_normalize_array(a) ==
    With(strip_leading_array(a), LAMBDA s :
        IF s.used = 0 THEN [s EXCEPT !.used = 1, !.words[1] = 0] ELSE s)

\* F(v) with v computed first: the loops below hand each turn the finished
\* state of the turn before it.
Strict(v, F(_)) == IF v = v THEN F(v) ELSE F(v)

\* One turn of the inner loop of bigint_mul, at column j of row i: st holds
\* r, the carry, and whether the loop has left on 'pos >= BIGINT_4096_WORDS'.
mul_step_array(st, a, b, i, j) ==
    IF st.stop THEN st
    ELSE IF i + j >= BIGINT_4096_WORDS THEN [st EXCEPT !.stop = TRUE]
    ELSE
    With(IF j < b.used THEN a.words[i + 1] * b.words[j + 1] ELSE 0, LAMBDA product :
    With(st.r.words[i + j + 1] + (product % WordBase) + st.carry, LAMBDA sum :
        [r |-> [st.r EXCEPT !.words[i + j + 1] = sum % WordBase,
                            !.used = IF i + j >= @ THEN i + j + 1 ELSE @],
         carry |-> (sum \div WordBase) + (product \div WordBase),
         stop |-> FALSE]))

\* The turns lo .. hi - 1 of the inner loop, in order.
RECURSIVE mul_inner_range(_, _, _, _, _, _)
mul_inner_range(st, a, b, i, lo, hi) ==
    IF hi <= lo THEN st
    ELSE IF hi = lo + 1 THEN mul_step_array(st, a, b, i, lo)
    ELSE Strict(mul_inner_range(st, a, b, i, lo, (lo + hi) \div 2), LAMBDA left :
             mul_inner_range(left, a, b, i, (lo + hi) \div 2, hi))

\* The turns of the inner loop past the limbs of b, while a carry is left.
RECURSIVE mul_inner_carry(_, _, _, _, _)
mul_inner_carry(st, a, b, i, j) ==
    IF st.stop \/ st.carry = 0 THEN st.r
    ELSE Strict(mul_step_array(st, a, b, i, j), LAMBDA next :
             mul_inner_carry(next, a, b, i, j + 1))

\* for (int j = 0; j < b->used || carry; j++): row i of the product
mul_inner_array(r, a, b, i) ==
    Strict(mul_inner_range([r |-> r, carry |-> 0, stop |-> FALSE], a, b, i, 0, b.used),
           LAMBDA st : mul_inner_carry(st, a, b, i, b.used))

\* The rows lo .. hi - 1 of the product, in order.
RECURSIVE mul_outer_array(_, _, _, _, _)
mul_outer_array(r, a, b, lo, hi) ==
    IF hi <= lo THEN r
    ELSE IF hi = lo + 1 THEN mul_inner_array(r, a, b, lo)
    ELSE Strict(mul_outer_array(r, a, b, lo, (lo + hi) \div 2), LAMBDA left :
             mul_outer_array(left, a, b, (lo + hi) \div 2, hi))

\* bigint_mul with the capacity test on the longer operand alone.
bigint_mul_array_loose(a, b) ==
    IF bigint_is_zero_array(a) \/ bigint_is_zero_array(b)
    THEN [ret |-> 0, val |-> bigint_init_array]
    ELSE IF Max(a.used, b.used) > BIGINT_4096_WORDS
    THEN [ret |-> -2, val |-> bigint_init_array]
    ELSE [ret |-> 0,
          val |-> bigint_normalize_array(
                     mul_outer_array(bigint_init_array, a, b, 0, a.used))]

\* int bigint_mul(bigint_t *r, const bigint_t *a, const bigint_t *b), on the
\* array
bigint_mul_array(a, b) ==
    IF bigint_is_zero_array(a) \/ bigint_is_zero_array(b)
    THEN [ret |-> 0, val |-> bigint_init_array]
    ELSE IF a.used + b.used > BIGINT_4096_WORDS
    THEN [ret |-> -2, val |-> bigint_init_array]
    ELSE [ret |-> 0,
          val |-> bigint_normalize_array(
                     mul_outer_array(bigint_init_array, a, b, 0, a.used))]

-----------------------------------------------------------------------------
(* Division and modulo *)

RECURSIVE div_loop(_, _, _)
div_loop(temp_dividend, temp_divisor, quotient_count) ==
    IF bigint_compare(temp_dividend, temp_divisor) >= 0
    THEN With(bigint_sub(temp_dividend, temp_divisor), LAMBDA s :
             IF s.ret # 0
             THEN [ret |-> s.ret, q |-> bigint_init, r |-> bigint_init]
             ELSE IF quotient_count + 1 > DivLimit
             THEN [ret |-> -3, q |-> bigint_init, r |-> bigint_init]
             ELSE div_loop(s.val, temp_divisor, quotient_count + 1))
    ELSE [ret |-> 0, q |-> bigint_set_u32(quotient_count),
          r |-> bigint_copy(temp_dividend)]

\* int bigint_div(bigint_t *q, bigint_t *r, const bigint_t *a, const bigint_t *b)
bigint_div(a, b) ==
    IF bigint_is_zero(b) THEN [ret |-> -2, q |-> NoWrite, r |-> NoWrite]
    ELSE IF bigint_is_zero(a)
    THEN [ret |-> 0, q |-> bigint_init, r |-> bigint_init]
    ELSE IF bigint_compare(a, b) < 0
    THEN [ret |-> 0, q |-> bigint_init, r |-> bigint_copy(a)]
    ELSE div_loop(bigint_copy(a), bigint_copy(b), 0)

\* int bigint_mod(bigint_t *r, const bigint_t *a, const bigint_t *m)
bigint_mod(a, m) ==
    With(bigint_div(a, m), LAMBDA d : [ret |-> d.ret, val |-> d.r])

-----------------------------------------------------------------------------
(* Montgomery word inverse *)

\* Newton steps compute_word_inverse takes (rsa_4096_montgomery.c line 66).
NEWTON_ITERATIONS == 5

RECURSIVE newton(_, _, _)
newton(n, x, i) ==
    IF i >= NEWTON_ITERATIONS THEN x
    ELSE LET nx == (n * x) % WordBase
         IN  newton(n, (x * ((2 - nx) % WordBase)) % WordBase, i + 1)

\* static uint32_t compute_word_inverse(uint32_t n), on limbs of WordBits bits
compute_word_inverse(n) ==
    IF n % 2 = 0 THEN 0
    ELSE LET x == newton(n, n, 0)
             verify == (n * x) % WordBase
         IN  IF verify # 1 THEN 0 ELSE x

\* static uint32_t compute_montgomery_nprime(uint32_t n)
compute_montgomery_nprime(n) ==
    LET n_inv == compute_word_inverse(n)
    IN  IF n_inv = 0 THEN 0
        ELSE LET n_prime == ((WORD_MASK - n_inv) + 1) % WordBase  \* (~n_inv) + 1
                 verify_product == (n * n_prime) % WordBase
             IN  IF verify_product # WORD_MASK THEN 0 ELSE n_prime

-----------------------------------------------------------------------------
(* The word inverse at the program's width.  A uint32_t is held as its     *)
(* four bytes, least significant first, so that no intermediate value      *)
(* leaves TLC's integers; products and differences wrap modulo 2^32 as     *)
(* the C arithmetic on uint32_t does.                                      *)

ByteBase == 2 ^ 8

\* Column k of the schoolbook product of two words, before carries.
mul_u32_column(a, b, k) ==
    LET term(i) == a[i + 1] * b[k - i + 1]
    IN  IF k = 0 THEN term(0)
        ELSE IF k = 1 THEN term(0) + term(1)
        ELSE IF k = 2 THEN term(0) + term(1) + term(2)
        ELSE term(0) + term(1) + term(2) + term(3)

\* (uint32_t)(a * b)
mul_u32(a, b) ==
    LET c0 == mul_u32_column(a, b, 0)
        c1 == mul_u32_column(a, b, 1) + (c0 \div ByteBase)
        c2 == mul_u32_column(a, b, 2) + (c1 \div ByteBase)
        c3 == mul_u32_column(a, b, 3) + (c2 \div ByteBase)
    IN  <<c0 % ByteBase, c1 % ByteBase, c2 % ByteBase, c3 % ByteBase>>

\* (uint32_t)(a - b)
sub_u32(a, b) ==
    LET d0 == a[1] - b[1]
        d1 == a[2] - b[2] - (IF d0 < 0 THEN 1 ELSE 0)
        d2 == a[3] - b[3] - (IF d1 < 0 THEN 1 ELSE 0)
        d3 == a[4] - b[4] - (IF d2 < 0 THEN 1 ELSE 0)
    IN  <<d0 % ByteBase, d1 % ByteBase, d2 % ByteBase, d3 % ByteBase>>

\* (uint32_t)(~a + 1)
neg_u32(a) ==
    LET c0 == (ByteBase - 1 - a[1]) + 1
        c1 == (ByteBase - 1 - a[2]) + (c0 \div ByteBase)
        c2 == (ByteBase - 1 - a[3]) + (c1 \div ByteBase)
        c3 == (ByteBase - 1 - a[4]) + (c2 \div ByteBase)
    IN  <<c0 % ByteBase, c1 % ByteBase, c2 % ByteBase, c3 % ByteBase>>

Zero32 == <<0, 0, 0, 0>>

One32 == <<1, 0, 0, 0>>

Two32 == <<2, 0, 0, 0>>

Mask32 == <<ByteBase - 1, ByteBase - 1, ByteBase - 1, ByteBase - 1>>

RECURSIVE newton_u32(_, _, _)
newton_u32(n, x, i) ==
    IF i >= NEWTON_ITERATIONS THEN x
    ELSE LET nx == mul_u32(n, x)
             two_minus_nx == sub_u32(Two32, nx)
         IN  newton_u32(n, mul_u32(x, two_minus_nx), i + 1)

\* The word inverse with the Newton iteration stopped two rounds early.
compute_word_inverse_u32_three_rounds(n) ==
    IF n[1] % 2 = 0 THEN Zero32
    ELSE LET x == newton_u32(n, n, 2)
             verify == mul_u32(n, x)
         IN  IF verify # One32 THEN Zero32 ELSE x

\* static uint32_t compute_word_inverse(uint32_t n)
compute_word_inverse_u32(n) ==
    IF n[1] % 2 = 0 THEN Zero32
    ELSE LET x == newton_u32(n, n, 0)
             verify == mul_u32(n, x)
         IN  IF verify # One32 THEN Zero32 ELSE x

\* static uint32_t compute_montgomery_nprime(uint32_t n)
compute_montgomery_nprime_u32(n) ==
    LET n_inv == compute_word_inverse_u32(n)
    IN  IF n_inv = Zero32 THEN Zero32
        ELSE LET n_prime == neg_u32(n_inv)
                 verify_product == mul_u32(n, n_prime)
             IN  IF verify_product # Mask32 THEN Zero32 ELSE n_prime

-----------------------------------------------------------------------------
(* Extended GCD *)

\* BIGINT_WORD_SIZE (rsa_4096.h line 20).
BIGINT_WORD_SIZE == 32

\* A number of bits of the program, in bits of the model.
ScaledBits(bits) == (bits * WordBits) \div BIGINT_WORD_SIZE

\* Largest single-limb modulus the trial search takes
\* (rsa_4096_montgomery.c line 174).
SMALL_MODULUS_LIMIT == 10000

\* The number of bits of v, less one.
RECURSIVE Log2(_)
Log2(v) == IF v <= 1 THEN 0 ELSE 1 + Log2(v \div 2)

\* The limit in the model's limbs: as in the program, the product of two
\* values below it fits one limb.
ScaledSmallModulusLimit == 2 ^ ScaledBits(Log2(SMALL_MODULUS_LIMIT))

\* Iterations extended_gcd_full allows (rsa_4096_montgomery.c line 226).
MAX_GCD_ITERATIONS == 3

RECURSIVE gcd_trial(_, _, _)
gcd_trial(a_val, m_val, i) ==
    IF i >= m_val THEN [ret |-> -3, val |-> NoWrite]
    ELSE IF ((a_val * i) % WordBase) % m_val = 1
    THEN [ret |-> 0, val |-> bigint_set_u32(i)]
    ELSE gcd_trial(a_val, m_val, i + 1)

RECURSIVE gcd_add_modulus(_, _, _)
gcd_add_modulus(temp_old_s, q_times_s, m) ==
    IF bigint_compare(temp_old_s, q_times_s) < 0
    THEN With(bigint_add(temp_old_s, m), LAMBDA temp_sum :
             IF temp_sum.ret # 0 THEN [ret |-> temp_sum.ret, val |-> temp_old_s]
             ELSE gcd_add_modulus(temp_sum.val, q_times_s, m))
    ELSE [ret |-> 0, val |-> temp_old_s]

RECURSIVE gcd_loop(_, _, _, _, _, _)
gcd_loop(old_r, r, old_s, s, m, iteration) ==
    IF ~bigint_is_zero(r) /\ iteration < MAX_GCD_ITERATIONS
    THEN With(bigint_div(old_r, r), LAMBDA d :
         IF d.ret # 0 THEN [ret |-> d.ret]
         ELSE
         With(bigint_mul(d.q, s), LAMBDA q_times_s :
         IF q_times_s.ret # 0 THEN [ret |-> q_times_s.ret]
         ELSE
         With(IF bigint_compare(old_s, q_times_s.val) >= 0
              THEN bigint_sub(old_s, q_times_s.val)
              ELSE With(gcd_add_modulus(old_s, q_times_s.val, m),
                        LAMBDA lifted :
                            IF lifted.ret # 0 THEN lifted
                            ELSE bigint_sub(lifted.val, q_times_s.val)),
              LAMBDA new_s :
         IF new_s.ret # 0 THEN [ret |-> new_s.ret]
         ELSE IF iteration + 1 >= MAX_GCD_ITERATIONS THEN [ret |-> -4]
         ELSE gcd_loop(r, d.r, s, new_s.val, m, iteration + 1))))
    ELSE [ret |-> 0, old_r |-> old_r, old_s |-> old_s, iteration |-> iteration]

\* The end of extended_gcd_full, after the loop has left old_r and old_s.
gcd_finish(g, m) ==
    IF g.ret # 0 THEN [ret |-> g.ret, val |-> NoWrite]
    ELSE IF g.iteration >= MAX_GCD_ITERATIONS THEN [ret |-> -4, val |-> NoWrite]
    ELSE IF bigint_compare(g.old_r, bigint_set_u32(1)) # 0
    THEN [ret |-> -5, val |-> NoWrite]
    ELSE IF bigint_compare(g.old_s, m) >= 0
    THEN [ret |-> 0, val |-> bigint_mod(g.old_s, m).val]
    ELSE IF g.old_s.used = 0 \/ (g.old_s.used = 1 /\ Word(g.old_s, 0) = 0)
    THEN [ret |-> -6, val |-> NoWrite]
    ELSE [ret |-> 0, val |-> bigint_copy(g.old_s)]

\* The trial search extended_gcd_full makes for a small single-limb modulus.
gcd_small_modulus(a_reduced, m) ==
    With(IF a_reduced.used > 0 THEN Word(a_reduced, 0) ELSE 0, LAMBDA a_val :
        IF a_val = 0 THEN [ret |-> -3, val |-> NoWrite]
        ELSE IF a_val = 1 THEN [ret |-> 0, val |-> bigint_set_u32(1)]
        ELSE gcd_trial(a_val, Word(m, 0), 1))

\* int extended_gcd_full(bigint_t *result, const bigint_t *a, const bigint_t *m)
extended_gcd_full(a, m) ==
    IF bigint_is_zero(m) \/ bigint_is_zero(a) THEN [ret |-> -2, val |-> NoWrite]
    ELSE
    With(With(bigint_mod(a, m), LAMBDA reduced :
              IF reduced.ret # 0 THEN bigint_copy(a) ELSE reduced.val),
         LAMBDA a_reduced :
        IF m.used = 1 /\ Word(m, 0) <= ScaledSmallModulusLimit
        THEN gcd_small_modulus(a_reduced, m)
        ELSE gcd_finish(gcd_loop(bigint_copy(m), bigint_copy(a_reduced),
                                 bigint_set_u32(1), bigint_init, m, 0), m))

\* int mod_inverse_extended_gcd(bigint_t *result, const bigint_t *a, const bigint_t *m)
mod_inverse_extended_gcd(a, m) == extended_gcd_full(a, m)

-----------------------------------------------------------------------------
(* Montgomery context *)

\* memset(ctx, 0, sizeof(montgomery_ctx_t))
ZeroCtx ==
    [n |-> bigint_init, r |-> bigint_init, r_squared |-> bigint_init,
     r_inv |-> bigint_init, n_prime |-> 0, n_words |-> 0, r_words |-> 0,
     is_active |-> 0]

\* Words montgomery_ctx_init keeps free above R (rsa_4096_montgomery.c line 375).
R_HEADROOM_WORDS == 10

\* montgomery_ctx_init from its memset on: the context is built from zero for
\* a modulus that has passed the checks.
ctx_init_build(modulus) ==
    With([ZeroCtx EXCEPT !.n = bigint_copy(modulus), !.n_words = modulus.used],
         LAMBDA c1 :
    IF c1.n_words <= 0 \/ c1.n_words > BIGINT_4096_WORDS
    THEN [ret |-> -4, ctx |-> c1]
    ELSE
    With([c1 EXCEPT !.r_words = c1.n_words], LAMBDA c2 :
    IF c2.r_words >= BIGINT_4096_WORDS - R_HEADROOM_WORDS
    THEN [ret |-> 0, ctx |-> c2]
    ELSE
    With([c2 EXCEPT !.r = bigint_normalize(
                              [SetWord(bigint_init, c2.r_words, 1)
                                  EXCEPT !.used = c2.r_words + 1])],
         LAMBDA c3 :
    IF bigint_compare(c3.r, c3.n) <= 0 THEN [ret |-> -4, ctx |-> c3]
    ELSE
    With([c3 EXCEPT !.n_prime = compute_montgomery_nprime(Word(modulus, 0))],
         LAMBDA c4 :
    IF c4.n_prime = 0 THEN [ret |-> -5, ctx |-> c4]
    ELSE
    With([c4 EXCEPT !.r_inv = With(extended_gcd_full(c4.r, c4.n), LAMBDA inv :
                                  IF inv.ret # 0 THEN bigint_init ELSE inv.val)],
         LAMBDA c5 :
    With(bigint_mod(c5.r, c5.n), LAMBDA r_mod_n :
    IF r_mod_n.ret # 0 THEN [ret |-> 0, ctx |-> c5]
    ELSE
    With(bigint_mul(r_mod_n.val, r_mod_n.val), LAMBDA r_squared_temp :
    IF r_squared_temp.ret # 0 THEN [ret |-> 0, ctx |-> c5]
    ELSE
    With(bigint_mod(r_squared_temp.val, c5.n), LAMBDA r_squared :
    IF r_squared.ret # 0
    THEN [ret |-> 0, ctx |-> [c5 EXCEPT !.r_squared = r_squared.val]]
    ELSE [ret |-> 0, ctx |-> [c5 EXCEPT !.r_squared = r_squared.val,
                                       !.is_active = 1]]))))))))

\* montgomery_ctx_init with the memset moved before the checks of the modulus.
montgomery_ctx_init_clear_first(old, modulus) ==
    IF bigint_is_zero(modulus) THEN [ret |-> -2, ctx |-> ZeroCtx]
    ELSE IF Word(modulus, 0) % 2 = 0 THEN [ret |-> -3, ctx |-> ZeroCtx]
    ELSE ctx_init_build(modulus)

\* int montgomery_ctx_init(montgomery_ctx_t *ctx, const bigint_t *modulus):
\* the return code and the context it leaves, from the context `old` it is given.
montgomery_ctx_init(old, modulus) ==
    IF bigint_is_zero(modulus) THEN [ret |-> -2, ctx |-> old]
    ELSE IF Word(modulus, 0) % 2 = 0 THEN [ret |-> -3, ctx |-> old]
    ELSE ctx_init_build(modulus)

\* A teardown that leaves the context as it is.
montgomery_ctx_free_keep(old) == old

\* void montgomery_ctx_free(montgomery_ctx_t *ctx)
montgomery_ctx_free(old) == ZeroCtx

-----------------------------------------------------------------------------
(* Montgomery reduction *)

\* Words montgomery_redc works on above twice the modulus
\* (rsa_4096_montgomery.c line 541).
REDC_EXTRA_WORDS == 10

Min(x, y) == IF x < y THEN x ELSE y

\* The inner loop of montgomery_redc: A += m * n * 2^(WordBits*i), limb by limb.
RECURSIVE redc_inner(_, _, _, _, _, _, _)
redc_inner(A, c, m, i, j, carry, max_words) ==
    IF j >= c.n_words \/ i + j >= max_words THEN [A |-> A, carry |-> carry]
    ELSE LET pos == i + j
             product == m * Word(c.n, j)
             current_val == IF pos < A.used THEN Word(A, pos) ELSE 0
             sum == current_val + (product % WordBase) + carry
             A1 == SetWord(A, pos, sum % WordBase)
             A2 == IF pos >= A1.used THEN [A1 EXCEPT !.used = pos + 1] ELSE A1
         IN  redc_inner(A2, c, m, i, j + 1,
                        (sum \div WordBase) + (product \div WordBase), max_words)

\* The carry added to the limb above the inner loop's last one, with what
\* overflows that limb dropped instead of carried on.
redc_carry_one_limb(A, pos, carry, max_words) ==
    IF carry > 0 /\ pos < max_words
    THEN LET current_val == IF pos < A.used THEN Word(A, pos) ELSE 0
             A1 == SetWord(A, pos, (current_val + carry) % WordBase)
         IN  IF pos >= A1.used THEN [A1 EXCEPT !.used = pos + 1] ELSE A1
    ELSE A

\* The carry propagation that follows the inner loop.
RECURSIVE redc_carry(_, _, _, _)
redc_carry(A, pos, carry, max_words) ==
    IF carry > 0 /\ pos < max_words
    THEN LET current_val == IF pos < A.used THEN Word(A, pos) ELSE 0
             sum == current_val + carry
             A1 == SetWord(A, pos, sum % WordBase)
             A2 == IF pos >= A1.used THEN [A1 EXCEPT !.used = pos + 1] ELSE A1
         IN  redc_carry(A2, pos + 1, sum \div WordBase, max_words)
    ELSE A

\* The main loop of montgomery_redc.
RECURSIVE redc_outer(_, _, _, _)
redc_outer(A, c, i, max_words) ==
    IF i >= c.n_words THEN A
    ELSE With(((IF i < A.used THEN Word(A, i) ELSE 0) * c.n_prime) % WordBase,
              LAMBDA m :
         With(redc_inner(A, c, m, i, 0, 0, max_words), LAMBDA inner :
             redc_outer(redc_carry(inner.A, i + c.n_words, inner.carry,
                                   max_words),
                        c, i + 1, max_words)))

\* The division by R: result->words[i] = A.words[i + n_words].
RECURSIVE redc_shift(_, _, _, _)
redc_shift(result, A, n_words, i) ==
    IF i >= result.used THEN result
    ELSE LET src_pos == i + n_words
         IN  redc_shift(SetWord(result, i,
                                IF src_pos < A.used THEN Word(A, src_pos) ELSE 0),
                        A, n_words, i + 1)

\* int montgomery_redc(bigint_t *result, const bigint_t *T, const montgomery_ctx_t *ctx)
montgomery_redc(T, c) ==
    IF c.is_active = 0 \/ c.n_words = 0 THEN [ret |-> -2, val |-> NoWrite]
    ELSE IF bigint_is_zero(c.n) \/ c.n_prime = 0
    THEN [ret |-> -3, val |-> NoWrite]
    ELSE IF bigint_compare(bigint_copy(T), T) # 0
    THEN [ret |-> -94, val |-> NoWrite]
    ELSE
    With(Min(c.n_words * 2 + REDC_EXTRA_WORDS, BIGINT_4096_WORDS),
         LAMBDA max_words :
    With(redc_outer(bigint_ensure_capacity(bigint_copy(T), max_words).val,
                    c, 0, max_words),
         LAMBDA A :
    With(IF A.used > c.n_words
         THEN bigint_normalize(
                  redc_shift([bigint_init EXCEPT !.used =
                                  Min(A.used - c.n_words, BIGINT_4096_WORDS)],
                             A, c.n_words, 0))
         ELSE bigint_init,
         LAMBDA shifted :
    IF ~bigint_is_zero(shifted) /\ bigint_compare(shifted, c.n) >= 0
    THEN With(bigint_sub(shifted, c.n), LAMBDA temp :
             IF temp.ret = 0 THEN [ret |-> 0, val |-> bigint_copy(temp.val)]
             ELSE [ret |-> 0, val |-> shifted])
    ELSE [ret |-> 0, val |-> shifted])))

-----------------------------------------------------------------------------
(* Montgomery form conversions, multiplication, exponentiation *)

RECURSIVE montgomery_from_form(_, _)
\* int montgomery_from_form(bigint_t *result, const bigint_t *a, const montgomery_ctx_t *ctx)
montgomery_from_form(a, c) ==
    IF c.is_active = 0 \/ c.n_words = 0 THEN [ret |-> -2, val |-> NoWrite]
    ELSE IF bigint_compare(a, c.n) >= 0
    THEN With(bigint_mod(a, c.n), LAMBDA reduced_a :
             IF reduced_a.ret # 0 THEN [ret |-> reduced_a.ret, val |-> NoWrite]
             ELSE montgomery_from_form(reduced_a.val, c))
    ELSE With(montgomery_redc(a, c), LAMBDA red :
             IF red.ret # 0 THEN red
             ELSE IF bigint_compare(red.val, c.n) >= 0
             THEN [ret |-> -95, val |-> red.val]
             ELSE [ret |-> 0, val |-> bigint_normalize(red.val)])

RECURSIVE montgomery_to_form(_, _)
\* int montgomery_to_form(bigint_t *result, const bigint_t *a, const montgomery_ctx_t *ctx)
montgomery_to_form(a, c) ==
    IF c.is_active = 0 \/ c.n_words = 0 THEN [ret |-> -2, val |-> NoWrite]
    ELSE IF bigint_compare(a, c.n) >= 0
    THEN With(bigint_mod(a, c.n), LAMBDA reduced_a :
             IF reduced_a.ret # 0 THEN [ret |-> reduced_a.ret, val |-> NoWrite]
             ELSE montgomery_to_form(reduced_a.val, c))
    ELSE With(bigint_copy(a), LAMBDA original_a :
         With(bigint_mul(a, c.r_squared), LAMBDA temp :
         IF temp.ret # 0 THEN [ret |-> temp.ret, val |-> NoWrite]
         ELSE
         With(montgomery_redc(temp.val, c), LAMBDA red :
         IF red.ret # 0 THEN red
         ELSE IF bigint_compare(red.val, c.n) >= 0
         THEN [ret |-> -97, val |-> red.val]
         ELSE
         With(bigint_normalize(red.val), LAMBDA result :
         IF c.n_words = 1
         THEN With(montgomery_from_form(result, c), LAMBDA test_back :
                  IF test_back.ret = 0
                     /\ bigint_compare(test_back.val, original_a) # 0
                  THEN [ret |-> -96, val |-> result]
                  ELSE [ret |-> 0, val |-> result])
         ELSE [ret |-> 0, val |-> result]))))

\* int montgomery_mul(bigint_t *result, const bigint_t *a, const bigint_t *b, const montgomery_ctx_t *ctx)
montgomery_mul(a, b, c) ==
    IF c.is_active = 0 \/ c.n_words = 0 THEN [ret |-> -1, val |-> NoWrite]
    ELSE With(bigint_mul(a, b), LAMBDA product :
             IF product.ret # 0 THEN [ret |-> product.ret, val |-> NoWrite]
             ELSE montgomery_redc(product.val, c))

\* int montgomery_square(bigint_t *result, const bigint_t *a, const montgomery_ctx_t *ctx)
montgomery_square(a, c) == montgomery_mul(a, a, c)

\* The square-and-multiply loop of montgomery_exp, from bit i down to bit 0.
RECURSIVE mont_exp_loop(_, _, _, _, _, _)
mont_exp_loop(mont_result, mont_base, exp, exp_bits, i, c) ==
    IF i < 0 THEN [ret |-> 0, val |-> mont_result]
    ELSE
    With(IF i < exp_bits - 1 THEN montgomery_square(mont_result, c)
         ELSE [ret |-> 0, val |-> mont_result],
         LAMBDA sq :
    IF sq.ret # 0 THEN [ret |-> sq.ret, val |-> NoWrite]
    ELSE
    With(IF bigint_get_bit(exp, i) # 0
         THEN montgomery_mul(sq.val, mont_base, c)
         ELSE [ret |-> 0, val |-> sq.val],
         LAMBDA ml :
    IF ml.ret # 0 THEN [ret |-> ml.ret, val |-> NoWrite]
    ELSE mont_exp_loop(ml.val, mont_base, exp, exp_bits, i - 1, c)))

\* int montgomery_exp(bigint_t *result, const bigint_t *base, const bigint_t *exp, const montgomery_ctx_t *ctx)
montgomery_exp(base, exp, c) ==
    IF c.is_active = 0 \/ c.n_words = 0 THEN [ret |-> -1, val |-> NoWrite]
    ELSE IF bigint_is_zero(exp) THEN [ret |-> 0, val |-> bigint_set_u32(1)]
    ELSE IF bigint_is_zero(base) THEN [ret |-> 0, val |-> bigint_init]
    ELSE
    With(montgomery_to_form(base, c), LAMBDA mont_base :
    IF mont_base.ret # 0 THEN [ret |-> mont_base.ret, val |-> NoWrite]
    ELSE
    With(bigint_bit_length(exp), LAMBDA exp_bits :
    With(montgomery_to_form(bigint_set_u32(1), c), LAMBDA mont_one :
    IF mont_one.ret # 0 THEN [ret |-> mont_one.ret, val |-> NoWrite]
    ELSE
    With(mont_exp_loop(mont_one.val, mont_base.val, exp, exp_bits,
                       exp_bits - 1, c),
         LAMBDA looped :
    IF looped.ret # 0 THEN looped
    ELSE montgomery_from_form(looped.val, c)))))

-----------------------------------------------------------------------------
(* Schoolbook modular exponentiation (rsa_4096_arithmetic.c) *)

\* Exponents of more words than this take the window method
\* (rsa_4096_arithmetic.c line 59).
WINDOW_EXP_WORDS == 20

\* Bits of one window (rsa_4096_arithmetic.c line 107).
WINDOW_BITS == 4

\* Iterations the binary method allows beyond the exponent's bit length
\* (rsa_4096_arithmetic.c line 279).
EXP_ITERATION_SLACK == 10

\* bigint_mul followed by bigint_mod and bigint_normalize, the step both
\* methods of bigint_mod_exp repeat.
mul_mod_step(x, y, mod) ==
    With(bigint_mul(x, y), LAMBDA product :
    IF product.ret # 0 THEN [ret |-> product.ret, val |-> NoWrite]
    ELSE
    With(bigint_mod(product.val, mod), LAMBDA reduced :
    IF reduced.ret # 0 THEN [ret |-> reduced.ret, val |-> NoWrite]
    ELSE [ret |-> 0, val |-> bigint_normalize(reduced.val)]))

\* window_powers[i] for i = 2..15
RECURSIVE window_precompute(_, _, _, _)
window_precompute(window_powers, i, temp_base, mod) ==
    IF i >= 2 ^ WINDOW_BITS THEN [ret |-> 0, powers |-> window_powers]
    ELSE With(mul_mod_step(window_powers[i - 1], temp_base, mod), LAMBDA p :
             IF p.ret # 0 THEN [ret |-> p.ret, powers |-> window_powers]
             ELSE window_precompute([window_powers EXCEPT ![i] = p.val],
                                    i + 1, temp_base, mod))

\* The window extracted at bit_pos: bit (bit_pos - j) lands on bit (3 - j).
RECURSIVE window_value(_, _, _)
window_value(exp, bit_pos, j) ==
    IF j < WINDOW_BITS /\ bit_pos - j >= 0
    THEN (IF bigint_get_bit(exp, bit_pos - j) # 0
          THEN 2 ^ (WINDOW_BITS - 1 - j) ELSE 0)
         + window_value(exp, bit_pos, j + 1)
    ELSE 0

RECURSIVE window_squarings(_, _, _, _)
window_squarings(temp_result, s, actual_bits, mod) ==
    IF s >= actual_bits THEN [ret |-> 0, val |-> temp_result]
    ELSE With(mul_mod_step(temp_result, temp_result, mod), LAMBDA sq :
             IF sq.ret # 0 THEN sq
             ELSE window_squarings(sq.val, s + 1, actual_bits, mod))

RECURSIVE window_loop(_, _, _, _, _, _)
window_loop(temp_result, started, bit_pos, exp, mod, window_powers) ==
    IF bit_pos < 0
    THEN [ret |-> 0,
          val |-> bigint_normalize(IF started THEN temp_result
                                   ELSE bigint_set_u32(1))]
    ELSE
    With(window_value(exp, bit_pos, 0), LAMBDA window :
    IF ~started /\ window = 0
    THEN window_loop(temp_result, started, bit_pos - WINDOW_BITS, exp, mod,
                     window_powers)
    ELSE IF ~started
    THEN window_loop(bigint_normalize(window_powers[window]), TRUE,
                     bit_pos - WINDOW_BITS, exp, mod, window_powers)
    ELSE
    With(window_squarings(temp_result, 0, Min(WINDOW_BITS, bit_pos + 1), mod),
         LAMBDA squared :
    IF squared.ret # 0 THEN squared
    ELSE
    With(IF window > 0
         THEN mul_mod_step(squared.val, window_powers[window], mod)
         ELSE squared,
         LAMBDA multiplied :
    IF multiplied.ret # 0 THEN multiplied
    ELSE window_loop(multiplied.val, TRUE, bit_pos - WINDOW_BITS, exp, mod,
                     window_powers))))

\* The 4-bit window method of bigint_mod_exp.
mod_exp_window(base, exp, mod) ==
    With(bigint_mod(base, mod), LAMBDA reduced :
    IF reduced.ret # 0 THEN [ret |-> reduced.ret, val |-> NoWrite]
    ELSE
    With(bigint_normalize(reduced.val), LAMBDA temp_base :
    With(window_precompute([i \in 0..(2 ^ WINDOW_BITS - 1) |->
                               IF i = 0 THEN bigint_set_u32(1)
                               ELSE IF i = 1 THEN temp_base
                               ELSE bigint_init],
                           2, temp_base, mod),
         LAMBDA pre :
    IF pre.ret # 0 THEN [ret |-> pre.ret, val |-> NoWrite]
    ELSE window_loop(bigint_set_u32(1), FALSE, bigint_bit_length(exp) - 1,
                     exp, mod, pre.powers))))

RECURSIVE mod_exp_binary_loop(_, _, _, _, _, _)
mod_exp_binary_loop(temp_result, temp_base, temp_exp, bit_count, exp, mod) ==
    IF bigint_is_zero(temp_exp)
    THEN [ret |-> 0, val |-> bigint_normalize(temp_result)]
    ELSE
    With(IF Word(temp_exp, 0) % 2 = 1
         THEN mul_mod_step(temp_result, temp_base, mod)
         ELSE [ret |-> 0, val |-> temp_result],
         LAMBDA new_result :
    IF new_result.ret # 0 THEN new_result
    ELSE
    With(bigint_shift_right(temp_exp, 1), LAMBDA new_exp :
    IF new_exp.ret # 0 THEN [ret |-> new_exp.ret, val |-> NoWrite]
    ELSE
    With(IF ~bigint_is_zero(new_exp.val)
         THEN mul_mod_step(temp_base, temp_base, mod)
         ELSE [ret |-> 0, val |-> temp_base],
         LAMBDA new_base :
    IF new_base.ret # 0 THEN new_base
    ELSE IF bit_count + 1 > bigint_bit_length(exp) + EXP_ITERATION_SLACK
    THEN [ret |-> -11, val |-> NoWrite]
    ELSE mod_exp_binary_loop(new_result.val, new_base.val, new_exp.val,
                             bit_count + 1, exp, mod))))

\* bigint_mod_exp with the test for the modulus 1 ahead of the test for the
\* exponent 0.
bigint_mod_exp_unit_first(base, exp, mod) ==
    IF bigint_is_zero(mod) THEN [ret |-> -2, val |-> NoWrite]
    ELSE IF mod.used = 1 /\ Word(mod, 0) = 1 THEN [ret |-> 0, val |-> bigint_init]
    ELSE IF bigint_is_zero(exp) THEN [ret |-> 0, val |-> bigint_set_u32(1)]
    ELSE IF bigint_is_zero(base) THEN [ret |-> 0, val |-> bigint_init]
    ELSE IF exp.used > WINDOW_EXP_WORDS THEN mod_exp_window(base, exp, mod)
    ELSE With(bigint_mod(base, mod), LAMBDA temp_base :
             IF temp_base.ret # 0 THEN [ret |-> temp_base.ret, val |-> NoWrite]
             ELSE mod_exp_binary_loop(bigint_set_u32(1),
                                      bigint_normalize(temp_base.val),
                                      bigint_copy(exp), 0, exp, mod))

\* int bigint_mod_exp(bigint_t *result, const bigint_t *base, const bigint_t *exp, const bigint_t *mod)
bigint_mod_exp(base, exp, mod) ==
    IF bigint_is_zero(mod) THEN [ret |-> -2, val |-> NoWrite]
    ELSE IF bigint_is_zero(exp) THEN [ret |-> 0, val |-> bigint_set_u32(1)]
    ELSE IF bigint_is_zero(base) THEN [ret |-> 0, val |-> bigint_init]
    ELSE IF mod.used = 1 /\ Word(mod, 0) = 1 THEN [ret |-> 0, val |-> bigint_init]
    ELSE IF exp.used > WINDOW_EXP_WORDS THEN mod_exp_window(base, exp, mod)
    ELSE With(bigint_mod(base, mod), LAMBDA temp_base :
             IF temp_base.ret # 0 THEN [ret |-> temp_base.ret, val |-> NoWrite]
             ELSE mod_exp_binary_loop(bigint_set_u32(1),
                                      bigint_normalize(temp_base.val),
                                      bigint_copy(exp), 0, exp, mod))

-----------------------------------------------------------------------------
(* The choice between the two exponentiations (rsa_4096_arithmetic.c,      *)
(* hybrid_mod_exp).  A pointer is a sequence: empty for NULL, otherwise    *)
(* the one object it points to.  The thresholds are the program's, in bits *)
(* of 32-bit limbs, and are scaled to the model's limbs.                   *)

\* Modulus size from which Montgomery is "optimal" (part_001 line 451).
LARGE_MODULUS_BITS == 512

\* Modulus size from which Montgomery is still chosen (part_001 line 455).
MEDIUM_MODULUS_BITS == 64

\* Share of the limb buffer a modulus may take (part_001 line 448).
BUFFER_MARGIN == 4

\* The selection: 1 when hybrid_mod_exp sets use_montgomery.
hybrid_use_montgomery(modulus, mont_ctx) ==
    IF Len(mont_ctx) = 0 \/ mont_ctx[1].is_active = 0 THEN 0
    ELSE IF mont_ctx[1].n_words <= 0 \/ mont_ctx[1].n_words > BIGINT_4096_WORDS
    THEN 0
    ELSE IF bigint_is_zero(mont_ctx[1].n) THEN 0
    ELSE IF bigint_compare(mont_ctx[1].n, modulus) # 0 THEN 0
    ELSE IF Word(modulus, 0) % 2 # 1 THEN 0
    ELSE With(bigint_bit_length(modulus), LAMBDA modulus_bits :
             IF (modulus_bits + WordBits - 1) \div WordBits
                    > BIGINT_4096_WORDS \div BUFFER_MARGIN
             THEN 0
             ELSE IF modulus_bits >= ScaledBits(LARGE_MODULUS_BITS) THEN 1
             ELSE IF modulus_bits >= ScaledBits(MEDIUM_MODULUS_BITS) THEN 1
             ELSE 0)

\* hybrid_finish without the reduction of a result that is not below the
\* modulus.
hybrid_finish_unreduced(r, modulus, calls) ==
    [ret |-> r.ret,
     val |-> IF r.ret = 0 THEN bigint_normalize(r.val) ELSE r.val,
     calls |-> calls]

\* The final validation of a result hybrid_mod_exp is about to return;
\* calls are the exponentiations it ran, in order, each with its return code.
hybrid_finish(r, modulus, calls) ==
    IF r.ret # 0
    THEN [ret |-> r.ret, val |-> r.val, calls |-> calls]
    ELSE IF bigint_compare(r.val, modulus) >= 0
    THEN With(bigint_mod(r.val, modulus), LAMBDA corrected :
             IF corrected.ret = 0
             THEN [ret |-> 0, val |-> bigint_normalize(bigint_copy(corrected.val)),
                   calls |-> calls]
             ELSE [ret |-> -10, val |-> r.val, calls |-> calls])
    ELSE [ret |-> 0, val |-> bigint_normalize(r.val), calls |-> calls]

\* The schoolbook exponentiation on the copies hybrid_mod_exp keeps of its
\* arguments, after the exponentiations in calls.
hybrid_schoolbook(base, exp, modulus, calls) ==
    With(bigint_mod_exp(bigint_copy(base), bigint_copy(exp), bigint_copy(modulus)),
         LAMBDA s :
             hybrid_finish(s, modulus,
                           Append(calls, [op |-> "bigint_mod_exp", ret |-> s.ret,
                                          args |-> <<base, exp, modulus>>])))

\* hybrid_mod_exp giving up when montgomery_exp fails, without the schoolbook
\* exponentiation.
hybrid_mod_exp_no_fallback(base, exp, modulus, mont_ctx) ==
    IF bigint_is_zero(modulus)
    THEN [ret |-> -2, val |-> NoWrite, calls |-> <<>>]
    ELSE IF hybrid_use_montgomery(modulus, mont_ctx) = 1
    THEN With(montgomery_exp(base, exp, mont_ctx[1]), LAMBDA m :
             hybrid_finish(m, modulus,
                 <<[op |-> "montgomery_exp", ret |-> m.ret,
                    args |-> <<base, exp, modulus>>]>>))
    ELSE hybrid_schoolbook(base, exp, modulus, <<>>)

\* int hybrid_mod_exp(bigint_t *result, const bigint_t *base, const bigint_t *exp,
\*                    const bigint_t *modulus, const montgomery_ctx_t *mont_ctx):
\* the return code and the result, with the exponentiations it called.
hybrid_mod_exp(base, exp, modulus, mont_ctx) ==
    IF bigint_is_zero(modulus)
    THEN [ret |-> -2, val |-> NoWrite, calls |-> <<>>]
    ELSE IF hybrid_use_montgomery(modulus, mont_ctx) = 1
    THEN With(montgomery_exp(base, exp, mont_ctx[1]), LAMBDA m :
             IF m.ret # 0
             THEN hybrid_schoolbook(base, exp, modulus,
                      <<[op |-> "montgomery_exp", ret |-> m.ret,
                         args |-> <<base, exp, modulus>>]>>)
             ELSE hybrid_finish(m, modulus,
                      <<[op |-> "montgomery_exp", ret |-> 0,
                         args |-> <<base, exp, modulus>>]>>))
    ELSE hybrid_schoolbook(base, exp, modulus, <<>>)

-----------------------------------------------------------------------------
(* Text conversions.  A C string is the sequence of its character codes.   *)

\* sizeof(buf) in bigint_to_decimal and bigint_to_hex
\* (rsa_4096_montgomery.c lines 1905 and 1970).
CODEC_BUF_SIZE == 2048

\* An output buffer the callee returned without writing.
NoString == <<-1>>

\* a = a * radix + digit, the step of bigint_from_decimal and bigint_from_hex
radix_push(a, radix, digit) ==
    With(bigint_mul(a, bigint_set_u32(radix)), LAMBDA temp :
        IF temp.ret # 0 THEN [ret |-> temp.ret, val |-> a]
        ELSE bigint_add(temp.val, bigint_set_u32(digit)))

RECURSIVE from_decimal_loop(_, _, _)
from_decimal_loop(a, decimal, i) ==
    IF i > Len(decimal) THEN [ret |-> 0, val |-> bigint_normalize(a)]
    ELSE IF decimal[i] < 48 \/ decimal[i] > 57
    THEN from_decimal_loop(a, decimal, i + 1)
    ELSE With(radix_push(a, 10, decimal[i] - 48), LAMBDA next :
             IF next.ret # 0 THEN next
             ELSE from_decimal_loop(next.val, decimal, i + 1))

\* int bigint_from_decimal(bigint_t *a, const char *decimal)
bigint_from_decimal(decimal) ==
    IF Len(decimal) = 0 THEN [ret |-> 0, val |-> bigint_init]
    ELSE from_decimal_loop(bigint_init, decimal, 1)

RECURSIVE from_hex_loop(_, _, _)
from_hex_loop(a, hex, i) ==
    IF i > Len(hex) THEN [ret |-> 0, val |-> bigint_normalize(a)]
    ELSE LET c == hex[i]
             is_digit == (c >= 48 /\ c <= 57) \/ (c >= 97 /\ c <= 102)
                            \/ (c >= 65 /\ c <= 70)
             digit == IF c >= 48 /\ c <= 57 THEN c - 48
                      ELSE IF c >= 97 /\ c <= 102 THEN c - 97 + 10
                      ELSE c - 65 + 10
         IN  IF ~is_digit THEN from_hex_loop(a, hex, i + 1)
             ELSE With(radix_push(a, 16, digit), LAMBDA next :
                      IF next.ret # 0 THEN next
                      ELSE from_hex_loop(next.val, hex, i + 1))

\* int bigint_from_hex(bigint_t *a, const char *hex)
bigint_from_hex(hex) ==
    IF Len(hex) = 0 THEN [ret |-> 0, val |-> bigint_init]
    ELSE from_hex_loop(bigint_init, hex, 1)

\* The digit loop of bigint_to_decimal and bigint_to_hex: buf holds the
\* digits least significant first.
RECURSIVE to_radix_loop(_, _, _)
to_radix_loop(x, radix, buf) ==
    IF bigint_is_zero(x) THEN [ret |-> 0, buf |-> buf]
    ELSE
    With(bigint_div(x, bigint_set_u32(radix)), LAMBDA d :
    IF d.ret # 0 THEN [ret |-> d.ret, buf |-> buf]
    ELSE
    With(IF d.r.used # 0 THEN Word(d.r, 0) ELSE 0, LAMBDA v :
    With(Append(buf, IF v < 10 THEN 48 + v ELSE 97 + v - 10), LAMBDA buf1 :
    IF Len(buf1) >= CODEC_BUF_SIZE - 1 THEN [ret |-> 0, buf |-> buf1]
    ELSE to_radix_loop(bigint_copy(d.q), radix, buf1))))

\* The copy loop: the digits most significant first, at most str_size - 1
\* of them (str_size is a size_t: 0 - 1 is its largest value).
copy_reversed(buf, str_size) ==
    LET p == Len(buf)
        count == IF str_size = 0 THEN p ELSE Min(p, str_size - 1)
    IN  [i \in 1..count |-> buf[p + 1 - i]]

to_radix(a, radix, str_size) ==
    IF bigint_is_zero(a)
    THEN [ret |-> 0, str |-> IF str_size > 0 THEN <<48>> ELSE NoString]
    ELSE With(to_radix_loop(bigint_copy(a), radix, <<>>), LAMBDA digits :
             IF digits.ret # 0 THEN [ret |-> digits.ret, str |-> NoString]
             ELSE [ret |-> 0, str |-> copy_reversed(digits.buf, str_size)])

\* int bigint_to_decimal(const bigint_t *a, char *str, size_t str_size)
bigint_to_decimal(a, str_size) == to_radix(a, 10, str_size)

\* int bigint_to_hex(const bigint_t *a, char *hex, size_t hex_size)
bigint_to_hex(a, hex_size) == to_radix(a, 16, hex_size)

-----------------------------------------------------------------------------
(* Binary conversions.  Bytes are the program's, of 8 bits, so here a word  *)
(* is four bytes, least significant first, as in the word inverse above,    *)
(* and words is the array of them, from index 0 (element 1) upwards.        *)

\* Longest byte string converted.
MaxBinaryLen == 5

\* sizeof(uint32_t): the bytes of one word.
BYTES_PER_WORD == 4

\* The words the longest byte string takes.
BinaryWords == (MaxBinaryLen + BYTES_PER_WORD - 1) \div BYTES_PER_WORD

\* void bigint_init(bigint_t *a), on words of bytes
bigint_init_u32 == [used |-> 0, words |-> [w \in 1..BinaryWords |-> Zero32]]

\* int bigint_is_zero(const bigint_t *a), on words of bytes
bigint_is_zero_u32(a) == (a.used = 0) \/ (a.used = 1 /\ a.words[1] = Zero32)

RECURSIVE strip_leading_u32(_)
strip_leading_u32(a) ==
    IF a.used > 0 /\ a.words[a.used] = Zero32
    THEN strip_leading_u32([a EXCEPT !.used = @ - 1])
    ELSE a

\* void bigint_normalize(bigint_t *a), on words of bytes
bigint_normalize_u32(a) ==
    LET s == strip_leading_u32(a)
    IN  IF s.used = 0 THEN [s EXCEPT !.used = 1, !.words[1] = Zero32] ELSE s

\* Bit bit_pos of a word of bytes.
bit_u32(word, bit_pos) ==
    (word[(bit_pos \div 8) + 1] \div (2 ^ (bit_pos % 8))) % 2

RECURSIVE top_bit_u32(_, _)
top_bit_u32(top_word, bit_pos) ==
    IF bit_pos > 0 /\ bit_u32(top_word, bit_pos) = 0
    THEN top_bit_u32(top_word, bit_pos - 1)
    ELSE bit_pos

\* int bigint_bit_length(const bigint_t *a), on words of bytes
bigint_bit_length_u32(a) ==
    IF bigint_is_zero_u32(a) THEN 0
    ELSE (a.used - 1) * BIGINT_WORD_SIZE
             + top_bit_u32(a.words[a.used], BIGINT_WORD_SIZE - 1) + 1

\* int bigint_from_binary(bigint_t *a, const uint8_t *data, size_t data_size)
bigint_from_binary(data) ==
    LET data_size == Len(data)
        words_needed == (data_size + 3) \div BYTES_PER_WORD
        byte_at(k) == IF k < data_size THEN data[data_size - k] ELSE 0
    IN  IF data_size = 0 THEN [ret |-> 0, val |-> bigint_init_u32]
        ELSE IF words_needed > BIGINT_4096_WORDS
        THEN [ret |-> -1, val |-> bigint_init_u32]
        ELSE [ret |-> 0,
              val |-> bigint_normalize_u32(
                  [used |-> words_needed,
                   words |-> [w \in 1..BinaryWords |->
                                 [b \in 1..BYTES_PER_WORD |->
                                     byte_at((w - 1) * BYTES_PER_WORD + (b - 1))]]])]

\* bigint_to_binary with a byte length of one bit less per byte boundary:
\* (bit_len + 6) / 8 in place of (bit_len + 7) / 8.
bigint_to_binary_short(a, data_size) ==
    LET bit_len == bigint_bit_length_u32(a)
        byte_len == Max(1, (bit_len + 6) \div 8)
        byte_of(k) == IF k \div BYTES_PER_WORD < a.used
                      THEN a.words[(k \div BYTES_PER_WORD) + 1][(k % BYTES_PER_WORD) + 1]
                      ELSE 0
    IN  IF byte_len > data_size
        THEN [ret |-> -2, data |-> NoString, bytes_written |-> byte_len]
        ELSE [ret |-> 0,
              data |-> [i \in 1..data_size |->
                           IF i <= byte_len THEN byte_of(byte_len - i) ELSE 0],
              bytes_written |-> byte_len]

\* int bigint_to_binary(const bigint_t *a, uint8_t *data, size_t data_size,
\*                      size_t *bytes_written)
bigint_to_binary(a, data_size) ==
    LET bit_len == bigint_bit_length_u32(a)
        byte_len == Max(1, (bit_len + 7) \div 8)
        byte_of(k) == IF k \div BYTES_PER_WORD < a.used
                      THEN a.words[(k \div BYTES_PER_WORD) + 1][(k % BYTES_PER_WORD) + 1]
                      ELSE 0
    IN  IF byte_len > data_size
        THEN [ret |-> -2, data |-> NoString, bytes_written |-> byte_len]
        ELSE [ret |-> 0,
              data |-> [i \in 1..data_size |->
                           IF i <= byte_len THEN byte_of(byte_len - i) ELSE 0],
              bytes_written |-> byte_len]

-----------------------------------------------------------------------------
(* RSA keys (rsa_4096_core.c) *)

\* void rsa_4096_init(rsa_4096_key_t *key)
rsa_4096_init ==
    [n |-> bigint_init, exponent |-> bigint_init, mont_ctx |-> ZeroCtx,
     is_private |-> 0]

\* rsa_4096_free with the memset of the key left out of the context.
rsa_4096_free_keep_ctx(k) ==
    [n |-> bigint_init, exponent |-> bigint_init,
     mont_ctx |-> k.mont_ctx, is_private |-> 0]

\* void rsa_4096_free(rsa_4096_key_t *key)
rsa_4096_free(k) ==
    [n |-> bigint_init, exponent |-> bigint_init,
     mont_ctx |-> montgomery_ctx_free(k.mont_ctx), is_private |-> 0]

\* int rsa_4096_load_key(rsa_4096_key_t *key, const char *n_decimal, const char *e_decimal, int is_private)
rsa_4096_load_key(n_decimal, e_decimal, is_private) ==
    With([rsa_4096_init EXCEPT !.is_private = is_private], LAMBDA k0 :
    With(bigint_from_decimal(n_decimal), LAMBDA n :
    With([k0 EXCEPT !.n = n.val], LAMBDA k1 :
    IF n.ret # 0 THEN [ret |-> n.ret, key |-> k1]
    ELSE
    With(bigint_from_decimal(e_decimal), LAMBDA e :
    With([k1 EXCEPT !.exponent = e.val], LAMBDA k2 :
    IF e.ret # 0 THEN [ret |-> e.ret, key |-> k2]
    ELSE IF bigint_is_zero(k2.n) THEN [ret |-> -3, key |-> k2]
    ELSE IF bigint_is_zero(k2.exponent) THEN [ret |-> -4, key |-> k2]
    ELSE IF Word(k2.n, 0) % 2 = 0 THEN [ret |-> 0, key |-> k2]
    ELSE [ret |-> 0,
          key |-> [k2 EXCEPT !.mont_ctx =
                       montgomery_ctx_init(k2.mont_ctx, k2.n).ctx]])))))

\* The exponentiation rsa_4096_encrypt and rsa_4096_decrypt choose.
rsa_exp(k, base) ==
    IF k.mont_ctx.is_active # 0
    THEN montgomery_exp(base, k.exponent, k.mont_ctx)
    ELSE bigint_mod_exp(base, k.exponent, k.n)

\* int rsa_4096_encrypt(const rsa_4096_key_t *pub_key, const char *message_decimal,
\*                      char *encrypted_hex, size_t encrypted_size)
rsa_4096_encrypt(pub_key, message_decimal, encrypted_size) ==
    IF encrypted_size = 0 THEN [ret |-> -2, str |-> NoString]
    ELSE
    With(bigint_from_decimal(message_decimal), LAMBDA message :
    IF message.ret # 0 THEN [ret |-> message.ret, str |-> NoString]
    ELSE IF bigint_compare(message.val, pub_key.n) >= 0
    THEN [ret |-> -3, str |-> NoString]
    ELSE IF bigint_is_zero(message.val)
    THEN (IF encrypted_size > 1 THEN [ret |-> 0, str |-> <<48>>]
          ELSE [ret |-> -4, str |-> NoString])
    ELSE
    With(rsa_exp(pub_key, message.val), LAMBDA encrypted :
    IF encrypted.ret # 0 THEN [ret |-> encrypted.ret, str |-> NoString]
    ELSE bigint_to_hex(encrypted.val, encrypted_size)))

\* int rsa_4096_decrypt(const rsa_4096_key_t *priv_key, const char *encrypted_hex,
\*                      char *message_decimal, size_t message_size)
rsa_4096_decrypt(priv_key, encrypted_hex, message_size) ==
    IF priv_key.is_private = 0 THEN [ret |-> -2, str |-> NoString]
    ELSE IF message_size = 0 THEN [ret |-> -3, str |-> NoString]
    ELSE
    With(bigint_from_hex(encrypted_hex), LAMBDA encrypted :
    IF encrypted.ret # 0 THEN [ret |-> encrypted.ret, str |-> NoString]
    ELSE IF bigint_compare(encrypted.val, priv_key.n) >= 0
    THEN [ret |-> -4, str |-> NoString]
    ELSE IF bigint_is_zero(encrypted.val)
    THEN (IF message_size > 1 THEN [ret |-> 0, str |-> <<48>>]
          ELSE [ret |-> -5, str |-> NoString])
    ELSE
    With(rsa_exp(priv_key, encrypted.val), LAMBDA decrypted :
    IF decrypted.ret # 0 THEN [ret |-> decrypted.ret, str |-> NoString]
    ELSE bigint_to_decimal(decrypted.val, message_size)))

-----------------------------------------------------------------------------
(* Callers' inputs *)

\* Largest value given to an arithmetic operation as an operand.
MaxValue == 40

\* Largest modulus a context is built for, beside the largest two-limb ones.
MaxModulus == 33

\* How many of the largest two-limb values are also taken as moduli, and
\* how many values just below the modulus (or below n*R) as operands.
TopCount == 2

\* Largest value given to montgomery_redc, beside those just below n*R.
MaxT == 1100

\* Largest exponent.
MaxExponent == 9

\* Largest shift distance.
MaxShift == 7

\* The inputs of montgomery_redc spread over 0 .. n*R.
RedcSpread == 64

RECURSIVE Limbs(_)
Limbs(v) == IF v = 0 THEN 0 ELSE 1 + Limbs(v \div WordBase)

\* The bigint_t of value v as bigint_init, bigint_set_u32 and bigint_mul leave
\* it: zero has used = 0.
BigInt(v) == [used |-> Limbs(v), words |-> v]

\* Zero as bigint_normalize, bigint_sub and the parsers leave it: used = 1.
ZeroOneLimb == [used |-> 1, words |-> 0]

Operands == {BigInt(v) : v \in 0..MaxValue} \cup {ZeroOneLimb}

Moduli ==
    {BigInt(v) : v \in 0..MaxModulus} \cup {ZeroOneLimb}
        \cup {BigInt(WordBase * WordBase - 1 - i) : i \in 0..TopCount}

Exponents == {BigInt(v) : v \in 0..MaxExponent} \cup {ZeroOneLimb}

\* Operands of the Montgomery operations: the small ones and those just
\* below the modulus of the context.
MontOperands ==
    Operands \cup {BigInt(Value(ctx.n) - j) : j \in 1..Min(TopCount, Value(ctx.n))}

\* Inputs of montgomery_redc: the small ones, and those around n*R.
RedcInputs ==
    {BigInt(t) : t \in 0..MaxT}
        \cup {BigInt(Value(ctx.n) * Value(ctx.r) - j) :
                 j \in 0..Min(TopCount, Value(ctx.n) * Value(ctx.r))}
        \cup {BigInt(((Value(ctx.n) * Value(ctx.r)) \div RedcSpread) * k + k) :
                 k \in 0..(RedcSpread - 1)}

\* The decimal string of v, as a caller prints it.
RECURSIVE Decimal(_)
Decimal(v) ==
    IF v < 10 THEN <<48 + v>> ELSE Append(Decimal(v \div 10), 48 + (v % 10))

\* Key pairs <<n, e, d>> with n = p * q and e * d = 1 modulo (p-1) * (q-1).
KeyPairs == {<<15, 3, 3>>, <<21, 5, 5>>, <<33, 3, 7>>, <<35, 5, 5>>}

\* The buffers the callers pass (rsa_4096_tests.c lines 84 and 127).
HEX_BUFFER_SIZE == 1024

MESSAGE_BUFFER_SIZE == 512

\* The bytes the words given to compute_montgomery_nprime are made of,
\* above the lowest byte, which takes every value.
ByteSamples == {0, 1, 85, ByteBase \div 2, ByteBase - 1}

-----------------------------------------------------------------------------
(* The state machine.  `call` records the call the caller has just made:   *)
(* the function, its arguments, its return code and the big integers it    *)
(* wrote.  The caller makes a call when it holds no result, and drops the  *)
(* result (Return) before the next unrelated call.                         *)

NoCall == [op |-> "none", args |-> <<>>, ret |-> 0, out |-> <<>>]

Init ==
    /\ ctx = ZeroCtx
    /\ key = rsa_4096_init
    /\ privkey = rsa_4096_init
    /\ call = NoCall

Return ==
    /\ call # NoCall
    /\ call' = NoCall
    /\ UNCHANGED <<ctx, key, privkey>>

Called(op, args, ret, out) ==
    [op |-> op, args |-> args, ret |-> ret, out |-> out]

(* Big integer operations *)

BigintSetU32(val) ==
    /\ call = NoCall
    /\ call' = Called("bigint_set_u32", <<val>>, 0, <<bigint_set_u32(val)>>)
    /\ UNCHANGED <<ctx, key, privkey>>

BigintAdd(a, b) ==
    /\ call = NoCall
    /\ LET r == bigint_add(a, b)
       IN  call' = Called("bigint_add", <<a, b>>, r.ret, <<r.val>>)
    /\ UNCHANGED <<ctx, key, privkey>>

BigintSub(a, b) ==
    /\ call = NoCall
    /\ LET r == bigint_sub(a, b)
       IN  call' = Called("bigint_sub", <<a, b>>, r.ret, <<r.val>>)
    /\ UNCHANGED <<ctx, key, privkey>>

BigintMul(a, b) ==
    /\ call = NoCall
    /\ LET r == bigint_mul(a, b)
       IN  call' = Called("bigint_mul", <<a, b>>, r.ret, <<r.val>>)
    /\ UNCHANGED <<ctx, key, privkey>>

BigintDiv(a, b) ==
    /\ call = NoCall
    /\ LET d == bigint_div(a, b)
       IN  call' = Called("bigint_div", <<a, b>>, d.ret, <<d.q, d.r>>)
    /\ UNCHANGED <<ctx, key, privkey>>

BigintMod(a, m) ==
    /\ call = NoCall
    /\ LET r == bigint_mod(a, m)
       IN  call' = Called("bigint_mod", <<a, m>>, r.ret, <<r.val>>)
    /\ UNCHANGED <<ctx, key, privkey>>

BigintShiftRight(a, bits) ==
    /\ call = NoCall
    /\ LET r == bigint_shift_right(a, bits)
       IN  call' = Called("bigint_shift_right", <<a, bits>>, r.ret, <<r.val>>)
    /\ UNCHANGED <<ctx, key, privkey>>

NextBigInt ==
    \/ \E val \in 0..WORD_MASK : BigintSetU32(val)
    \/ \E a, b \in Operands : BigintAdd(a, b)
    \/ \E a, b \in Operands : BigintSub(a, b)
    \/ \E a, b \in Operands : BigintMul(a, b)
    \/ \E a, b \in Operands : BigintDiv(a, b)
    \/ \E a, m \in Operands : BigintMod(a, m)
    \/ \E a \in Operands, bits \in 0..MaxShift : BigintShiftRight(a, bits)
    \/ Return

SpecBigInt == Init /\ [][NextBigInt]_vars

(* Montgomery context *)

MontgomeryCtxInit(modulus) ==
    /\ call = NoCall
    /\ LET r == montgomery_ctx_init(ctx, modulus)
       IN  /\ ctx' = r.ctx
           /\ call' = [Called("montgomery_ctx_init", <<modulus>>, r.ret, <<>>)
                          EXCEPT !.args = <<modulus, ctx>>]
    /\ UNCHANGED <<key, privkey>>

MontgomeryCtxFree ==
    /\ call = NoCall
    /\ ctx' = montgomery_ctx_free(ctx)
    /\ call' = Called("montgomery_ctx_free", <<ctx>>, 0, <<>>)
    /\ UNCHANGED <<key, privkey>>

NextCtx ==
    \/ \E modulus \in Moduli : MontgomeryCtxInit(modulus)
    \/ MontgomeryCtxFree
    \/ Return

SpecCtx == Init /\ [][NextCtx]_vars

(* Montgomery reduction *)

MontgomeryRedc(T) ==
    /\ call = NoCall
    /\ With(montgomery_redc(T, ctx), LAMBDA r :
           call' = Called("montgomery_redc", <<T>>, r.ret, <<r.val>>))
    /\ UNCHANGED <<ctx, key, privkey>>

NextRedc ==
    \/ \E modulus \in Moduli : MontgomeryCtxInit(modulus)
    \/ \E T \in RedcInputs : MontgomeryRedc(T)
    \/ Return

SpecRedc == Init /\ [][NextRedc]_vars

(* Montgomery form *)

MontgomeryToForm(a) ==
    /\ call = NoCall
    /\ With(montgomery_to_form(a, ctx), LAMBDA r :
           call' = Called("montgomery_to_form", <<a>>, r.ret, <<r.val>>))
    /\ UNCHANGED <<ctx, key, privkey>>

\* The caller converts back what montgomery_to_form has just given it; the
\* record keeps the value it started from as the second argument.
MontgomeryFromForm ==
    /\ call.op = "montgomery_to_form"
    /\ call.ret = 0
    /\ With(montgomery_from_form(call.out[1], ctx), LAMBDA r :
           call' = Called("montgomery_from_form", <<call.out[1], call.args[1]>>,
                          r.ret, <<r.val>>))
    /\ UNCHANGED <<ctx, key, privkey>>

\* The caller converts a and b and multiplies the two Montgomery forms; a
\* conversion that fails ends the sequence with its return code.
MontgomeryMul(a, b) ==
    /\ call = NoCall
    /\ With(montgomery_to_form(a, ctx), LAMBDA a_mont :
       With(montgomery_to_form(b, ctx), LAMBDA b_mont :
           IF a_mont.ret # 0
           THEN call' = Called("montgomery_to_form", <<a>>, a_mont.ret,
                               <<a_mont.val>>)
           ELSE IF b_mont.ret # 0
           THEN call' = Called("montgomery_to_form", <<b>>, b_mont.ret,
                               <<b_mont.val>>)
           ELSE With(montgomery_mul(a_mont.val, b_mont.val, ctx), LAMBDA r :
                    call' = Called("montgomery_mul", <<a_mont.val, b_mont.val, a, b>>,
                                   r.ret, <<r.val>>))))
    /\ UNCHANGED <<ctx, key, privkey>>

NextForm ==
    \/ \E modulus \in Moduli : MontgomeryCtxInit(modulus)
    \/ \E a \in MontOperands : MontgomeryToForm(a)
    \/ MontgomeryFromForm
    \/ \E a, b \in MontOperands : MontgomeryMul(a, b)
    \/ Return

SpecForm == Init /\ [][NextForm]_vars

(* Modular exponentiation *)

MontgomeryExp(base, exp) ==
    /\ call = NoCall
    /\ With(montgomery_exp(base, exp, ctx), LAMBDA r :
           call' = Called("montgomery_exp", <<base, exp>>, r.ret, <<r.val>>))
    /\ UNCHANGED <<ctx, key, privkey>>

BigintModExp(base, exp, mod) ==
    /\ call = NoCall
    /\ With(bigint_mod_exp(base, exp, mod), LAMBDA r :
           call' = Called("bigint_mod_exp", <<base, exp, mod>>, r.ret, <<r.val>>))
    /\ UNCHANGED <<ctx, key, privkey>>

NextExp ==
    \/ \E modulus \in Moduli : MontgomeryCtxInit(modulus)
    \/ \E base \in MontOperands, exp \in Exponents : MontgomeryExp(base, exp)
    \/ \E base \in MontOperands, exp \in Exponents : BigintModExp(base, exp, ctx.n)
    \/ Return

SpecExp == Init /\ [][NextExp]_vars

(* RSA *)

LoadPublicKey(n, e) ==
    /\ call = NoCall
    /\ With(rsa_4096_load_key(Decimal(n), Decimal(e), 0), LAMBDA r :
           /\ key' = r.key
           /\ call' = Called("rsa_4096_load_key", <<Decimal(n), Decimal(e), 0>>,
                             r.ret, <<>>))
    /\ UNCHANGED <<ctx, privkey>>

LoadPrivateKey(n, d) ==
    /\ call = NoCall
    /\ With(rsa_4096_load_key(Decimal(n), Decimal(d), 1), LAMBDA r :
           /\ privkey' = r.key
           /\ call' = Called("rsa_4096_load_key", <<Decimal(n), Decimal(d), 1>>,
                             r.ret, <<>>))
    /\ UNCHANGED <<ctx, key>>

Encrypt(m) ==
    /\ call = NoCall
    /\ With(rsa_4096_encrypt(key, Decimal(m), HEX_BUFFER_SIZE), LAMBDA r :
           call' = Called("rsa_4096_encrypt", <<Decimal(m)>>, r.ret, <<r.str>>))
    /\ UNCHANGED <<ctx, key, privkey>>

\* The caller decrypts what rsa_4096_encrypt has just given it; the record
\* keeps the message it started from as the second argument.
Decrypt ==
    /\ call.op = "rsa_4096_encrypt"
    /\ call.ret = 0
    /\ With(rsa_4096_decrypt(privkey, call.out[1], MESSAGE_BUFFER_SIZE), LAMBDA r :
           call' = Called("rsa_4096_decrypt", <<call.out[1], call.args[1]>>,
                          r.ret, <<r.str>>))
    /\ UNCHANGED <<ctx, key, privkey>>

NextRsa ==
    \/ \E pair \in KeyPairs : LoadPublicKey(pair[1], pair[2])
    \/ \E pair \in KeyPairs : LoadPrivateKey(pair[1], pair[3])
    \/ \E m \in 0..MaxValue : Encrypt(m)
    \/ Decrypt
    \/ Return

SpecRsa == Init /\ [][NextRsa]_vars

(* The word inverse *)

ComputeMontgomeryNprime(n) ==
    /\ call = NoCall
    /\ call' = Called("compute_montgomery_nprime", <<n>>, 0,
                      <<compute_montgomery_nprime_u32(n)>>)
    /\ UNCHANGED <<ctx, key, privkey>>

NextNewton ==
    \/ \E b0 \in 0..(ByteBase - 1), b1, b2, b3 \in ByteSamples :
           ComputeMontgomeryNprime(<<b0, b1, b2, b3>>)
    \/ Return

SpecNewton == Init /\ [][NextNewton]_vars

-----------------------------------------------------------------------------
(* The properties.  The reference arithmetic below is the mathematics the  *)
(* properties are stated in; none of it is the program's.                  *)

\* base^exp mod n, by repeated multiplication.
RECURSIVE PowMod(_, _, _)
PowMod(base, exp, n) ==
    IF exp = 0 THEN 1 % n ELSE (PowMod(base, exp - 1, n) * (base % n)) % n

IsPrime(p) == p > 1 /\ \A f \in 2..(p - 1) : p % f # 0

\* n = p * q for two different primes, and e * d = 1 modulo (p-1) * (q-1).
ValidKeyPair(n, e, d) ==
    \E p, q \in 2..n :
        /\ p < q /\ p * q = n /\ IsPrime(p) /\ IsPrime(q)
        /\ (e * d) % ((p - 1) * (q - 1)) = 1

\* The number a decimal string denotes.
RECURSIVE Number(_)
Number(digits) ==
    IF Len(digits) = 0 THEN 0
    ELSE 10 * Number(SubSeq(digits, 1, Len(digits) - 1))
             + (digits[Len(digits)] - 48)

\* The public key and the private key in hand are the two halves of a valid
\* key pair, both loaded with success.
KeyPairLoaded ==
    /\ key.n = privkey.n
    /\ key.is_private = 0
    /\ privkey.is_private = 1
    /\ ValidKeyPair(Value(key.n), Value(key.exponent), Value(privkey.exponent))

\* C1: with a valid key pair loaded, rsa_4096_encrypt of every message m < n
\* succeeds, and rsa_4096_decrypt of its result succeeds and gives back the
\* decimal string of m.
C1_EncryptDecryptRoundTrip ==
    KeyPairLoaded =>
        /\ (call.op = "rsa_4096_encrypt" /\ Number(call.args[1]) < Value(key.n))
               => call.ret = 0
        /\ (call.op = "rsa_4096_decrypt" /\ Number(call.args[2]) < Value(key.n))
               => (call.ret = 0 /\ call.out[1] = call.args[2])

\* C2: with a context active for the odd modulus n, montgomery_exp and
\* bigint_mod_exp (given n as its modulus) both succeed with base^exp mod n,
\* and so with the same value.
C2_ExpAgreement ==
    ctx.is_active = 1 =>
        /\ call.op = "montgomery_exp"
               => /\ call.ret = 0
                  /\ Value(call.out[1])
                         = PowMod(Value(call.args[1]), Value(call.args[2]),
                                  Value(ctx.n))
        /\ (call.op = "bigint_mod_exp" /\ call.args[3] = ctx.n)
               => /\ call.ret = 0
                  /\ Value(call.out[1])
                         = PowMod(Value(call.args[1]), Value(call.args[2]),
                                  Value(ctx.n))

\* C3: for every a and every b other than zero, bigint_div succeeds and gives
\* q and r with a = q * b + r and r < b, whatever the size of the quotient.
C3_DivisionIdentity ==
    (call.op = "bigint_div" /\ Value(call.args[2]) # 0)
        => /\ call.ret = 0
           /\ Value(call.args[1])
                  = Value(call.out[1]) * Value(call.args[2]) + Value(call.out[2])
           /\ Value(call.out[2]) < Value(call.args[2])

\* A limb array with `used` limbs is normalized: no limbs when the value is
\* zero, otherwise a top limb other than zero, and nothing above the top.
Normalized(a) ==
    /\ a.used >= 0
    /\ (a.used = 0) <=> (LowWords(a, a.used) = 0)
    /\ a.used > 0 => Word(a, a.used - 1) # 0
    /\ a.words = LowWords(a, a.used)

\* C4: every big integer an operation has written is normalized.
C4_ResultsNormalized ==
    (call.op \in {"bigint_set_u32", "bigint_add", "bigint_sub", "bigint_mul",
                  "bigint_div", "bigint_mod", "bigint_shift_right"}
        /\ call.ret = 0)
        => \A i \in 1..Len(call.out) : Normalized(call.out[i])

\* montgomery_ctx_init has been given an odd modulus and has returned 0: the
\* context holds that modulus.
ContextBuilt == Value(ctx.n) % 2 = 1

\* C5: with a context built for an odd modulus n, montgomery_to_form of every
\* a < n succeeds, and montgomery_from_form of its result succeeds and gives
\* back a.
C5_FormRoundTrip ==
    ContextBuilt =>
        /\ (call.op = "montgomery_to_form" /\ Value(call.args[1]) < Value(ctx.n))
               => call.ret = 0
        /\ (call.op = "montgomery_from_form"
                /\ Value(call.args[2]) < Value(ctx.n))
               => (call.ret = 0 /\ Value(call.out[1]) = Value(call.args[2]))

\* C6: with an active context for n and a, b < n, the conversions of a and b
\* and montgomery_mul of the two forms succeed; the product is below n and
\* is the Montgomery form of (a * b) mod n.
C6_MulOfForms ==
    (ctx.is_active = 1 /\ call.op \in {"montgomery_to_form", "montgomery_mul"}
        /\ \A i \in 1..Len(call.args) : Value(call.args[i]) < Value(ctx.n))
        => /\ call.ret = 0
           /\ call.op = "montgomery_mul"
                  => /\ Value(call.out[1]) < Value(ctx.n)
                     /\ Value(call.out[1])
                            = (Value(call.args[3]) * Value(call.args[4])
                                   * Value(ctx.r)) % Value(ctx.n)

C8_CtxInitActive ==
    (call.op = "montgomery_ctx_init" /\ Value(call.args[1]) % 2 = 1)
        => /\ call.ret = 0
           /\ ctx.is_active = 1
           /\ ctx.n_words = call.args[1].used
           /\ Value(ctx.r) = Weight(ctx.n_words)
           /\ Value(ctx.r_squared)
                  = (Value(ctx.r) * Value(ctx.r)) % Value(call.args[1])

\* C9: for every odd 32-bit word n0, compute_montgomery_nprime passes its
\* self-checks (it does not return 0) and returns n' with
\* (n0 * n') mod 2^32 = 2^32 - 1: the five Newton rounds started at n0 have
\* reached the inverse of n0 modulo 2^32.
C9_NewtonInverse ==
    (call.op = "compute_montgomery_nprime" /\ call.args[1][1] % 2 = 1)
        => /\ call.out[1] # Zero32
           /\ mul_u32(call.args[1], call.out[1]) = Mask32
           /\ mul_u32(call.args[1], neg_u32(call.out[1])) = One32

\* An odd word with all four bytes in use, and the n' returned for it.
C9_Witness ==
    /\ call.op = "compute_montgomery_nprime"
    /\ call.args[1][1] % 2 = 1
    /\ call.args[1][1] > 1
    /\ call.args[1][3] = 85
    /\ call.args[1][4] = ByteBase - 1
    /\ call.out[1] # Zero32

\* C10 as stated: montgomery_ctx_init fails with -2 for the modulus zero and
\* with -3 for an even modulus other than zero, and after either failure the
\* context is not active.
C10_FailedInitInactive ==
    call.op = "montgomery_ctx_init"
        => /\ Value(call.args[1]) = 0 => (call.ret = -2 /\ ctx.is_active = 0)
           /\ (Value(call.args[1]) # 0 /\ Value(call.args[1]) % 2 = 0)
                  => (call.ret = -3 /\ ctx.is_active = 0)

\* C10, amended: montgomery_ctx_init fails with -2 for the modulus zero and
\* with -3 for an even modulus other than zero, and either failure leaves the
\* context as the caller passed it: the call never marks it active.
C10_FailedInitLeavesContext ==
    call.op = "montgomery_ctx_init"
        => /\ Value(call.args[1]) = 0 => (call.ret = -2 /\ ctx = call.args[2])
           /\ (Value(call.args[1]) # 0 /\ Value(call.args[1]) % 2 = 0)
                  => (call.ret = -3 /\ ctx = call.args[2])

\* An even modulus refused on a context that an earlier call had made active.
C10_Witness ==
    /\ call.op = "montgomery_ctx_init"
    /\ Value(call.args[1]) # 0
    /\ Value(call.args[1]) % 2 = 0
    /\ call.ret = -3
    /\ call.args[2].is_active = 1

-----------------------------------------------------------------------------
(* The life of one context: builds, arithmetic and teardowns in any order. *)

\* montgomery_from_form of a value the caller holds.
MontgomeryFromFormOf(a) ==
    /\ call = NoCall
    /\ With(montgomery_from_form(a, ctx), LAMBDA r :
           call' = Called("montgomery_from_form", <<a, a>>, r.ret, <<r.val>>))
    /\ UNCHANGED <<ctx, key, privkey>>

\* montgomery_mul of two values the caller holds.
MontgomeryMulOf(a, b) ==
    /\ call = NoCall
    /\ With(montgomery_mul(a, b, ctx), LAMBDA r :
           call' = Called("montgomery_mul", <<a, b>>, r.ret, <<r.val>>))
    /\ UNCHANGED <<ctx, key, privkey>>

NextLife ==
    \/ \E modulus \in Moduli : MontgomeryCtxInit(modulus)
    \/ MontgomeryCtxFree
    \/ \E T \in Operands : MontgomeryRedc(T)
    \/ \E a \in Operands : MontgomeryToForm(a)
    \/ \E a \in Operands : MontgomeryFromFormOf(a)
    \/ \E a, b \in Operands : MontgomeryMulOf(a, b)
    \/ \E base \in Operands, exp \in Exponents : MontgomeryExp(base, exp)
    \/ Return

SpecLife == Init /\ [][NextLife]_vars

MontgomeryArithmetic ==
    {"montgomery_redc", "montgomery_to_form", "montgomery_from_form",
     "montgomery_mul", "montgomery_exp"}

\* C11: in every step of a context's life, the context becomes active only
\* in a montgomery_ctx_init that returns 0, and is inactive after every
\* montgomery_ctx_free; an arithmetic call on an inactive context returns an
\* error and writes no result; and an arithmetic call leaves every field of
\* the context as it was.
C11_ContextLifecycle ==
    [][/\ (ctx.is_active = 0 /\ ctx'.is_active = 1)
              => (call'.op = "montgomery_ctx_init" /\ call'.ret = 0)
       /\ (call = NoCall /\ call'.op = "montgomery_ctx_free")
              => ctx' = ZeroCtx
       /\ (call = NoCall /\ call'.op \in MontgomeryArithmetic)
              => /\ ctx' = ctx
                 /\ ctx.is_active = 0
                        => (call'.ret # 0 /\ call'.out = <<NoWrite>>)]_vars

\* An exponentiation refused on a context whose build was declined.
C11_Witness ==
    /\ call.op = "montgomery_exp"
    /\ ctx.is_active = 0
    /\ ctx.n_words > 0
    /\ call.ret # 0

-----------------------------------------------------------------------------
(* hybrid_mod_exp, called with no context or with the caller's context.    *)

\* Largest modulus given to hybrid_mod_exp, beside the largest two-limb ones.
MaxHybridModulus == 7

\* Largest of the small bases given to hybrid_mod_exp.
MaxHybridBase == 12

\* Largest exponent given to hybrid_mod_exp.
MaxHybridExponent == 3

HybridExponents == {e \in Exponents : Value(e) <= MaxHybridExponent}

\* The moduli given to hybrid_mod_exp and to the context it is called with.
HybridModuli == {m \in Moduli : Value(m) <= MaxHybridModulus \/ m.used > 1}

\* The bases given to hybrid_mod_exp: the small ones, those around the
\* modulus, and the first multiple of it that bigint_div does not reduce.
HybridBases(modulus) ==
    {b \in Operands : Value(b) <= MaxHybridBase}
        \cup {BigInt(Value(modulus) - j) : j \in 1..Min(TopCount, Value(modulus))}
        \cup {BigInt(Value(modulus) + j) : j \in 0..TopCount}
        \cup {BigInt(Value(modulus) * (DivLimit + 1))}

HybridModExp(base, exp, modulus, mont_ctx) ==
    /\ call = NoCall
    /\ With(hybrid_mod_exp(base, exp, modulus, mont_ctx), LAMBDA r :
           call' = Called("hybrid_mod_exp", <<base, exp, modulus, mont_ctx>>,
                          r.ret, <<r.val, r.calls>>))
    /\ UNCHANGED <<ctx, key, privkey>>

NextHybrid ==
    \/ \E modulus \in HybridModuli : MontgomeryCtxInit(modulus)
    \/ MontgomeryCtxFree
    \/ \E modulus \in HybridModuli, exp \in HybridExponents, mont_ctx \in {<<>>, <<ctx>>} :
           \E base \in HybridBases(modulus) :
               HybridModExp(base, exp, modulus, mont_ctx)
    \/ Return

SpecHybrid == Init /\ [][NextHybrid]_vars

\* A call of hybrid_mod_exp has just returned; its arguments and outcome.
HybridCalled == call.op = "hybrid_mod_exp"

HybridBase == call.args[1]

HybridExp == call.args[2]

HybridModulus == call.args[3]

HybridCtx == call.args[4]

HybridResult == call.out[1]

HybridCalls == call.out[2]

\* The names of the exponentiations the call ran, in order.
HybridOps == [i \in 1..Len(HybridCalls) |-> HybridCalls[i].op]

\* C12: when the context pointer is NULL, or the context is inactive, or the
\* modulus is even (and not zero), hybrid_mod_exp runs the schoolbook
\* exponentiation only, never montgomery_exp, and the call succeeds with
\* base^exp mod n.
C12_SchoolbookWithoutContext ==
    (/\ HybridCalled
     /\ Value(HybridModulus) > 0
     /\ \/ Len(HybridCtx) = 0
        \/ HybridCtx[1].is_active = 0
        \/ Value(HybridModulus) % 2 = 0)
        => /\ HybridOps = <<"bigint_mod_exp">>
           /\ call.ret = 0
           /\ Value(HybridResult)
                  = PowMod(Value(HybridBase), Value(HybridExp), Value(HybridModulus))

\* The call was given a pointer to an active context and an odd modulus.
HybridActiveOdd ==
    /\ HybridCalled
    /\ Len(HybridCtx) = 1
    /\ HybridCtx[1].is_active = 1
    /\ Value(HybridModulus) % 2 = 1

\* C13: with an active context and an odd modulus, hybrid_mod_exp runs the
\* schoolbook exponentiation only whenever the modulus is shorter than the
\* large-modulus threshold (512 bits of the program), and runs montgomery_exp
\* only when the modulus has at least that many bits.
C13_MontgomeryOnlyForLargeModulus ==
    HybridActiveOdd =>
        /\ bigint_bit_length(HybridModulus) < ScaledBits(LARGE_MODULUS_BITS)
               => HybridOps = <<"bigint_mod_exp">>
        /\ (\E i \in 1..Len(HybridOps) : HybridOps[i] = "montgomery_exp")
               => bigint_bit_length(HybridModulus) >= ScaledBits(LARGE_MODULUS_BITS)

\* montgomery_exp was run by the call and failed.
HybridMontgomeryFailed ==
    /\ HybridCalled
    /\ Len(HybridCalls) >= 1
    /\ HybridCalls[1].op = "montgomery_exp"
    /\ HybridCalls[1].ret # 0

C15_WitnessMontgomery ==
    /\ HybridCalled
    /\ call.ret = 0
    /\ HybridOps = <<"montgomery_exp">>
    /\ Value(HybridResult) > 1
    /\ Value(HybridResult) < Value(HybridModulus)

-----------------------------------------------------------------------------
(* mod_inverse_extended_gcd *)

ModInverseExtendedGcd(a, m) ==
    /\ call = NoCall
    /\ With(mod_inverse_extended_gcd(a, m), LAMBDA r :
           call' = Called("mod_inverse_extended_gcd", <<a, m>>, r.ret, <<r.val>>))
    /\ UNCHANGED <<ctx, key, privkey>>

NextInverse ==
    \/ \E a \in Operands, m \in Moduli : ModInverseExtendedGcd(a, m)
    \/ Return

SpecInverse == Init /\ [][NextInverse]_vars

\* The greatest common divisor of two natural numbers.
RECURSIVE Gcd(_, _)
Gcd(x, y) == IF y = 0 THEN x ELSE Gcd(y, x % y)

\* A call of mod_inverse_extended_gcd has just returned; its arguments.
InverseCalled == call.op = "mod_inverse_extended_gcd"

InverseA == Value(call.args[1])

InverseM == Value(call.args[2])

\* C16: for a # 0, m > 1 and gcd(a, m) = 1, mod_inverse_extended_gcd succeeds
\* with a result r, 1 <= r < m and (a * r) mod m = 1, whichever path it
\* takes and also when a >= m.
C16_InverseCorrect ==
    (InverseCalled /\ InverseA # 0 /\ InverseM > 1 /\ Gcd(InverseA, InverseM) = 1)
        => /\ call.ret = 0
           /\ Value(call.out[1]) >= 1
           /\ Value(call.out[1]) < InverseM
           /\ (InverseA * Value(call.out[1])) % InverseM = 1

\* C17: mod_inverse_extended_gcd (for a modulus above 1) fails only when an
\* operand is zero or gcd(a, m) # 1, never for a limit on its iterations.
C17_InverseFailsOnlyWithoutInverse ==
    (InverseCalled /\ InverseM > 1 /\ call.ret # 0)
        => (InverseA = 0 \/ Gcd(InverseA, InverseM) # 1)

-----------------------------------------------------------------------------
(* Text conversions: a number written, then read back. *)

BigintToDecimal(a, str_size) ==
    /\ call = NoCall
    /\ With(bigint_to_decimal(a, str_size), LAMBDA r :
           call' = Called("bigint_to_decimal", <<a, str_size>>, r.ret, <<r.str>>))
    /\ UNCHANGED <<ctx, key, privkey>>

\* bigint_from_decimal on the text bigint_to_decimal has just written.
BigintFromDecimal ==
    /\ call.op = "bigint_to_decimal"
    /\ call.ret = 0
    /\ call.out[1] # NoString
    /\ With(bigint_from_decimal(call.out[1]), LAMBDA r :
           call' = Called("bigint_from_decimal", <<call.out[1], call.args[1]>>,
                          r.ret, <<r.val>>))
    /\ UNCHANGED <<ctx, key, privkey>>

BigintToHex(a, hex_size) ==
    /\ call = NoCall
    /\ With(bigint_to_hex(a, hex_size), LAMBDA r :
           call' = Called("bigint_to_hex", <<a, hex_size>>, r.ret, <<r.str>>))
    /\ UNCHANGED <<ctx, key, privkey>>

\* bigint_from_hex on the text bigint_to_hex has just written.
BigintFromHex ==
    /\ call.op = "bigint_to_hex"
    /\ call.ret = 0
    /\ call.out[1] # NoString
    /\ With(bigint_from_hex(call.out[1]), LAMBDA r :
           call' = Called("bigint_from_hex", <<call.out[1], call.args[1]>>,
                          r.ret, <<r.val>>))
    /\ UNCHANGED <<ctx, key, privkey>>

\* The buffers the callers pass to the text conversions.
TextBufferSizes == {MESSAGE_BUFFER_SIZE, HEX_BUFFER_SIZE}

NextCodec ==
    \/ \E a \in Operands, str_size \in TextBufferSizes : BigintToDecimal(a, str_size)
    \/ BigintFromDecimal
    \/ \E a \in Operands, hex_size \in TextBufferSizes : BigintToHex(a, hex_size)
    \/ BigintFromHex
    \/ Return

SpecCodec == Init /\ [][NextCodec]_vars

\* The hexadecimal string of v: lower case, no leading zeros.
RECURSIVE Hexadecimal(_)
Hexadecimal(v) ==
    LET d == v % 16
        c == IF d < 10 THEN 48 + d ELSE 97 + d - 10
    IN  IF v < 16 THEN <<c>> ELSE Append(Hexadecimal(v \div 16), c)

\* C18: bigint_to_decimal and bigint_to_hex succeed and write the complete
\* text of x (hex in lower case without leading zeros, zero as "0"), and
\* bigint_from_decimal and bigint_from_hex of that text succeed and give x.
C18_TextRoundTrip ==
    /\ call.op = "bigint_to_decimal"
           => (call.ret = 0 /\ call.out[1] = Decimal(Value(call.args[1])))
    /\ call.op = "bigint_to_hex"
           => (call.ret = 0 /\ call.out[1] = Hexadecimal(Value(call.args[1])))
    /\ call.op \in {"bigint_from_decimal", "bigint_from_hex"}
           => (call.ret = 0 /\ Value(call.out[1]) = Value(call.args[2]))

-----------------------------------------------------------------------------
(* Binary conversions: a number written and read back, bytes read and      *)
(* written back.                                                           *)

\* The values the bytes converted take.
BinaryBytes == {0, 1, ByteBase - 1}

\* The byte strings converted.
BinaryStrings == UNION {[1..n -> BinaryBytes] : n \in 0..MaxBinaryLen}

\* The normalized number whose big-endian bytes are s.
BigEndian(s) ==
    [used |-> (Len(s) + BYTES_PER_WORD - 1) \div BYTES_PER_WORD,
     words |-> [w \in 1..BinaryWords |->
                   [b \in 1..BYTES_PER_WORD |->
                       LET k == (w - 1) * BYTES_PER_WORD + (b - 1)
                       IN  IF k < Len(s) THEN s[Len(s) - k] ELSE 0]]]

\* The numbers converted: every number of at most MaxBinaryLen bytes, zero
\* with used = 0 and with used = 1.
BinaryOperands ==
    {BigEndian(s) : s \in {t \in BinaryStrings : Len(t) > 0 /\ t[1] # 0}}
        \cup {bigint_init_u32, [bigint_init_u32 EXCEPT !.used = 1]}

BigintToBinary(a, data_size) ==
    /\ call = NoCall
    /\ With(bigint_to_binary(a, data_size), LAMBDA r :
           call' = Called("bigint_to_binary", <<a, data_size>>, r.ret,
                          <<r.data, r.bytes_written>>))
    /\ UNCHANGED <<ctx, key, privkey>>

\* bigint_from_binary on the bytes bigint_to_binary has just written.
BinaryReadBack ==
    /\ call.op = "bigint_to_binary"
    /\ Len(call.args) = 2
    /\ call.ret = 0
    /\ With(SubSeq(call.out[1], 1, call.out[2]), LAMBDA bytes :
       With(bigint_from_binary(bytes), LAMBDA r :
           call' = Called("bigint_from_binary", <<bytes, call.args[1]>>,
                          r.ret, <<r.val>>)))
    /\ UNCHANGED <<ctx, key, privkey>>

BigintFromBinary(data) ==
    /\ call = NoCall
    /\ With(bigint_from_binary(data), LAMBDA r :
           call' = Called("bigint_from_binary", <<data>>, r.ret, <<r.val>>))
    /\ UNCHANGED <<ctx, key, privkey>>

\* bigint_to_binary on the number bigint_from_binary has just read, into a
\* buffer as long as the bytes read, or longer.
BinaryWriteBack(data_size) ==
    /\ call.op = "bigint_from_binary"
    /\ Len(call.args) = 1
    /\ call.ret = 0
    /\ data_size >= Len(call.args[1])
    /\ With(bigint_to_binary(call.out[1], data_size), LAMBDA r :
           call' = Called("bigint_to_binary",
                          <<call.out[1], data_size, call.args[1]>>, r.ret,
                          <<r.data, r.bytes_written>>))
    /\ UNCHANGED <<ctx, key, privkey>>

NextBinary ==
    \/ \E a \in BinaryOperands, data_size \in 0..(MaxBinaryLen + 1) :
           BigintToBinary(a, data_size)
    \/ BinaryReadBack
    \/ \E data \in BinaryStrings : BigintFromBinary(data)
    \/ \E data_size \in 1..(MaxBinaryLen + 1) : BinaryWriteBack(data_size)
    \/ Return

SpecBinary == Init /\ [][NextBinary]_vars

\* A byte string without its leading zero bytes; one zero byte for zero.
RECURSIVE StripZeroBytes(_)
StripZeroBytes(s) ==
    IF Len(s) = 0 THEN <<0>>
    ELSE IF Len(s) > 1 /\ s[1] = 0 THEN StripZeroBytes(Tail(s))
    ELSE s

\* The bytes of the used words of a number, most significant first.
BytesOf(a) ==
    [i \in 1..(a.used * BYTES_PER_WORD) |->
        LET k == a.used * BYTES_PER_WORD - i
        IN  a.words[(k \div BYTES_PER_WORD) + 1][(k % BYTES_PER_WORD) + 1]]

\* The bits of a byte.
RECURSIVE ByteBitLength(_)
ByteBitLength(b) == IF b = 0 THEN 0 ELSE 1 + ByteBitLength(b \div 2)

\* The bits of a number, from its bytes.
BitLength(a) ==
    LET s == StripZeroBytes(BytesOf(a))
    IN  (Len(s) - 1) * 8 + ByteBitLength(s[1])

\* max(1, ceil(bit_length / 8))
NeededBytes(a) == Max(1, (BitLength(a) + 7) \div 8)

\* The bytes a call of bigint_to_binary wrote.
BytesWritten == SubSeq(call.out[1], 1, call.out[2])

\* C19: bigint_to_binary writes exactly max(1, ceil(bit_length(x) / 8))
\* big-endian bytes, and bigint_from_binary of them gives x; the bytes written
\* for bigint_from_binary(s) are s without its leading zero bytes (one zero
\* byte for zero); into a buffer shorter than needed, bigint_to_binary fails
\* and reports the needed length.
C19_BinaryRoundTrip ==
    /\ (call.op = "bigint_to_binary" /\ call.args[2] >= NeededBytes(call.args[1]))
           => /\ call.ret = 0
              /\ call.out[2] = NeededBytes(call.args[1])
              /\ BytesWritten = StripZeroBytes(BytesOf(call.args[1]))
    /\ (call.op = "bigint_to_binary" /\ call.args[2] < NeededBytes(call.args[1]))
           => /\ call.ret # 0
              /\ call.out[2] = NeededBytes(call.args[1])
    /\ (call.op = "bigint_from_binary" /\ Len(call.args) = 2)
           => /\ call.ret = 0
              /\ StripZeroBytes(BytesOf(call.out[1]))
                     = StripZeroBytes(BytesOf(call.args[2]))
    /\ (call.op = "bigint_to_binary" /\ Len(call.args) = 3)
           => /\ call.ret = 0
              /\ BytesWritten = StripZeroBytes(call.args[3])

\* Bytes with leading zeros were read and written back without them.
C19_Witness ==
    /\ call.op = "bigint_to_binary"
    /\ Len(call.args) = 3
    /\ Len(call.args[3]) = MaxBinaryLen
    /\ call.args[3][1] = 0
    /\ call.ret = 0
    /\ call.out[2] = BYTES_PER_WORD
    /\ BytesWritten = SubSeq(call.args[3], 2, MaxBinaryLen)

\* A buffer one byte short: the call failed and reported the needed length.
C19_WitnessShortBuffer ==
    /\ call.op = "bigint_to_binary"
    /\ Len(call.args) = 2
    /\ call.args[2] = MaxBinaryLen - 1
    /\ call.ret # 0
    /\ call.out[2] = MaxBinaryLen

\* A number of more than one word was written and read back.
C19_WitnessReadBack ==
    /\ call.op = "bigint_from_binary"
    /\ Len(call.args) = 2
    /\ call.args[2].used = BinaryWords
    /\ call.ret = 0
    /\ call.out[1] = call.args[2]

-----------------------------------------------------------------------------
(* The parsers on text a caller typed. *)

\* Longest text parsed.
MaxTextLen == 3

\* The characters of the texts parsed: 0 1 9, a f A F, and g G x, space
\* and minus, which are digits in neither radix.
TextChars == {48, 49, 57, 97, 102, 65, 70, 103, 71, 120, 32, 45}

Texts == UNION {[1..n -> TextChars] : n \in 0..MaxTextLen}

BigintFromDecimalOf(decimal) ==
    /\ call = NoCall
    /\ With(bigint_from_decimal(decimal), LAMBDA r :
           call' = Called("bigint_from_decimal", <<decimal>>, r.ret, <<r.val>>))
    /\ UNCHANGED <<ctx, key, privkey>>

BigintFromHexOf(hex) ==
    /\ call = NoCall
    /\ With(bigint_from_hex(hex), LAMBDA r :
           call' = Called("bigint_from_hex", <<hex>>, r.ret, <<r.val>>))
    /\ UNCHANGED <<ctx, key, privkey>>

NextParse ==
    \/ \E decimal \in Texts : BigintFromDecimalOf(decimal)
    \/ \E hex \in Texts : BigintFromHexOf(hex)
    \/ Return

SpecParse == Init /\ [][NextParse]_vars

DecimalDigits == 48..57

HexDigits == (48..57) \cup (97..102) \cup (65..70)

\* C20: bigint_from_decimal fails whenever its input holds a character that is
\* not a decimal digit, and bigint_from_hex whenever its input holds one that
\* is not a hexadecimal digit.
C20_ParsersRejectNonDigits ==
    /\ (/\ call.op = "bigint_from_decimal"
        /\ \E i \in 1..Len(call.args[1]) : call.args[1][i] \notin DecimalDigits)
           => call.ret # 0
    /\ (/\ call.op = "bigint_from_hex"
        /\ \E i \in 1..Len(call.args[1]) : call.args[1][i] \notin HexDigits)
           => call.ret # 0

------------------------------------------------------------------------------
(* C21: the capacity test of bigint_mul, on operands of the program's size *)

\* Number of limbs test_overflow.c fills in each operand.
TEST_LIMBS == 120

\* Operand lengths on both sides of the capacity test.
MulSizes ==
    {1, 2, 3, TEST_LIMBS, BIGINT_4096_WORDS \div 2, BIGINT_4096_WORDS \div 2 + 1,
     BIGINT_4096_WORDS - TEST_LIMBS, BIGINT_4096_WORDS - TEST_LIMBS + 1,
     BIGINT_4096_WORDS - 1, BIGINT_4096_WORDS}

\* k limbs, every one of them all ones (the operands of test_overflow.c).
AllOnes(k) ==
    [used |-> k,
     words |-> [i \in 1..BIGINT_4096_WORDS |-> IF i <= k THEN WordBase - 1 ELSE 0] \o <<>>]

\* k limbs, the top one 1 and the others 0.
TopOne(k) ==
    [used |-> k,
     words |-> [i \in 1..BIGINT_4096_WORDS |-> IF i = k THEN 1 ELSE 0] \o <<>>]

\* Zero as bigint_init leaves it, and zero as bigint_normalize leaves it.
MulZeros == {bigint_init_array, [bigint_init_array EXCEPT !.used = 1]}

MulOperands == MulZeros \cup {AllOnes(k) : k \in MulSizes} \cup {TopOne(k) : k \in MulSizes}

BigintMulArray(a, b) ==
    /\ call = NoCall
    /\ With(bigint_mul_array(a, b), LAMBDA r :
           call' = Called("bigint_mul", <<a, b>>, r.ret, <<r.val>>))
    /\ UNCHANGED <<ctx, key, privkey>>

NextMul ==
    \/ \E a \in MulOperands, b \in MulOperands : BigintMulArray(a, b)
    \/ Return

SpecMul == Init /\ [][NextMul]_vars

IsAllOnes(a) == a.used >= 1 /\ \A i \in 1..a.used : a.words[i] = WordBase - 1
IsTopOne(a) == a.used >= 1 /\ \A i \in 1..a.used : a.words[i] = (IF i = a.used THEN 1 ELSE 0)

\* The limbs of (B^k - 1) * (B^m - 1) = B^(k+m) - B^m - B^k + 1 for k <= m:
\* limb 0 is 1, limbs 1 .. k-1 are 0, limbs k .. k+m-1 are all ones except
\* limb m, which is one less.
OnesTimesOnes(k, m) ==
    [i \in 1..BIGINT_4096_WORDS |->
        IF i = 1 THEN 1
        ELSE IF i <= k THEN 0
        ELSE IF i = m + 1 THEN WordBase - 2
        ELSE IF i <= k + m THEN WordBase - 1
        ELSE 0]

\* The limbs of a * b for the operands of MulOperands, none of them zero.
ExactProduct(a, b) ==
    IF IsTopOne(a) THEN [i \in 1..BIGINT_4096_WORDS |->
                            IF i >= a.used /\ i < a.used + b.used
                            THEN b.words[i - a.used + 1] ELSE 0]
    ELSE IF IsTopOne(b) THEN [i \in 1..BIGINT_4096_WORDS |->
                            IF i >= b.used /\ i < a.used + b.used
                            THEN a.words[i - b.used + 1] ELSE 0]
    ELSE IF a.used <= b.used THEN OnesTimesOnes(a.used, b.used)
    ELSE OnesTimesOnes(b.used, a.used)

MulCalled == call.op = "bigint_mul"
MulA == call.args[1]
MulB == call.args[2]
MulResult == call.out[1]
MulBothNonZero == ~bigint_is_zero_array(MulA) /\ ~bigint_is_zero_array(MulB)
MulOverCapacity == MulA.used + MulB.used > BIGINT_4096_WORDS

\* C21: bigint_mul fails with the overflow error exactly when both operands
\* are non-zero and their limb counts add up to more than the capacity; in
\* every other case it succeeds, with zero when an operand is zero and with
\* every limb of the exact product otherwise.
C21_MulCapacity ==
    MulCalled =>
        IF MulBothNonZero /\ MulOverCapacity THEN call.ret = -2
        ELSE /\ call.ret = 0
             /\ IF MulBothNonZero
                THEN \A i \in 1..BIGINT_4096_WORDS :
                         MulResult.words[i] = ExactProduct(MulA, MulB)[i]
                ELSE bigint_is_zero_array(MulResult)

\* The product of test_overflow.c: 120 limbs of all ones by 120 limbs of all
\* ones succeeds and fills 240 limbs.
C21_Witness ==
    /\ MulCalled
    /\ MulA = AllOnes(TEST_LIMBS) /\ MulB = AllOnes(TEST_LIMBS)
    /\ call.ret = 0 /\ MulResult.used = 2 * TEST_LIMBS

\* A product one limb over the capacity is refused.
C21_WitnessOverflow ==
    /\ MulCalled
    /\ MulA.used + MulB.used = BIGINT_4096_WORDS + 1
    /\ MulBothNonZero
    /\ call.ret = -2

\* A product that fills the capacity exactly succeeds.
C21_WitnessFull ==
    /\ MulCalled
    /\ MulA.used + MulB.used = BIGINT_4096_WORDS
    /\ IsAllOnes(MulA) /\ IsAllOnes(MulB)
    /\ call.ret = 0 /\ MulResult.used = BIGINT_4096_WORDS

------------------------------------------------------------------------------
(* C22: bigint_sub and its underflow *)

SubCalled == call.op = "bigint_sub" /\ Len(call.args) = 2
SubA == call.args[1]
SubB == call.args[2]
SubResult == call.out[1]

\* C22: bigint_sub fails with the underflow error exactly when the value of a
\* is less than the value of b; otherwise it returns a - b, and for a = b the
\* result is zero with used = 0.
C22_SubUnderflowExact ==
    SubCalled =>
        /\ (call.ret = -2) <=> (Value(SubA) < Value(SubB))
        /\ (Value(SubA) >= Value(SubB)) =>
               /\ call.ret = 0
               /\ Value(SubResult) = Value(SubA) - Value(SubB)
        /\ (Value(SubA) = Value(SubB)) => SubResult.used = 0

------------------------------------------------------------------------------
(* C23: addition undone by subtraction *)

\* bigint_sub of b from the sum bigint_add(a, b) has just written.
BigintSubBack ==
    /\ call.op = "bigint_add"
    /\ call.ret = 0
    /\ With(bigint_sub(call.out[1], call.args[2]), LAMBDA r :
           call' = Called("bigint_sub", <<call.out[1], call.args[2], call.args[1]>>,
                          r.ret, <<r.val>>))
    /\ UNCHANGED <<ctx, key, privkey>>

NextAddSub ==
    \/ \E a, b \in Operands : BigintAdd(a, b)
    \/ BigintSubBack
    \/ Return

SpecAddSub == Init /\ [][NextAddSub]_vars

SubBackCalled == call.op = "bigint_sub" /\ Len(call.args) = 3

\* C23: for a and b whose sum fits the capacity, bigint_sub of b from
\* bigint_add(a, b) succeeds and its result compares equal to a under
\* bigint_compare, zero operands included.
C23_AddThenSub ==
    SubBackCalled =>
        /\ call.ret = 0
        /\ bigint_compare(call.out[1], call.args[3]) = 0

------------------------------------------------------------------------------
(* C28: the order bigint_compare gives *)

BigintCompare(a, b) ==
    /\ call = NoCall
    /\ call' = Called("bigint_compare", <<a, b>>, bigint_compare(a, b), <<>>)
    /\ UNCHANGED <<ctx, key, privkey>>

NextCompare ==
    \/ \E a, b \in Operands : BigintCompare(a, b)
    \/ Return

SpecCompare == Init /\ [][NextCompare]_vars

Sign(x) == IF x < 0 THEN -1 ELSE IF x > 0 THEN 1 ELSE 0

\* C28: for two big integers as the operations of the library leave them
\* (zero with used = 0 as bigint_init and bigint_mul leave it, zero with
\* used = 1 as bigint_sub and bigint_normalize leave it), bigint_compare is
\* negative, zero or positive as the values are ordered; two zeros compare
\* equal.
C28_CompareIsNumericOrder ==
    call.op = "bigint_compare" =>
        Sign(call.ret) = Sign(Value(call.args[1]) - Value(call.args[2]))

------------------------------------------------------------------------------
(* C24, C25: encryption and decryption of bytes.  The byte conversions work *)
(* on words of four bytes and the arithmetic on limbs of WordBits bits, so  *)
(* a number passes from one to the other by its value, zero keeping the     *)
(* used it has.                                                             *)

\* Longest byte message encrypted.
MaxMessageLen == 2

\* A modulus of at most this many bits takes one byte of message.
ONE_BYTE_MODULUS_BITS == 8

\* The buffers the callers pass (rsa_4096_tests.c lines 364 and 384).
BINARY_BUFFER_SIZE == 256

\* A bigint_t of one word of bytes, as a bigint_t of limbs.
bigint_of_u32(a) ==
    LET v == IF a.used = 0 THEN 0
             ELSE a.words[1][1] + ByteBase * a.words[1][2]
                      + ByteBase * ByteBase * a.words[1][3]
                      + ByteBase * ByteBase * ByteBase * a.words[1][4]
    IN  [used |-> IF v = 0 THEN a.used ELSE Limbs(v), words |-> v]

\* A bigint_t of limbs, below one word of bytes, as a bigint_t of words of bytes.
u32_of_bigint(a) ==
    LET v == Value(a)
    IN  [used |-> IF v = 0 THEN a.used ELSE 1,
         words |-> [w \in 1..BinaryWords |->
                       [b \in 1..BYTES_PER_WORD |->
                           IF w = 1 THEN (v \div (ByteBase ^ (b - 1))) % ByteBase
                           ELSE 0]]]

NoBytes == [ret |-> 0, data |-> NoString, bytes_written |-> 0]

\* int rsa_4096_encrypt_binary(const rsa_4096_key_t *pub_key, const uint8_t *message,
\*                             size_t message_size, uint8_t *encrypted,
\*                             size_t encrypted_buffer_size, size_t *encrypted_size)
rsa_4096_encrypt_binary(pub_key, message, encrypted_buffer_size) ==
    IF Len(message) = 0 THEN [NoBytes EXCEPT !.ret = -2]
    ELSE IF encrypted_buffer_size = 0 THEN [NoBytes EXCEPT !.ret = -3]
    ELSE
    With(IF bigint_bit_length(pub_key.n) <= ONE_BYTE_MODULUS_BITS /\ Len(message) > 1
         THEN 1 ELSE Len(message), LAMBDA message_size :
    With(bigint_from_binary(SubSeq(message, 1, message_size)), LAMBDA message_bigint :
    IF message_bigint.ret # 0 THEN [NoBytes EXCEPT !.ret = message_bigint.ret]
    ELSE IF bigint_compare(bigint_of_u32(message_bigint.val), pub_key.n) >= 0
    THEN [NoBytes EXCEPT !.ret = -4]
    ELSE
    With(rsa_exp(pub_key, bigint_of_u32(message_bigint.val)), LAMBDA encrypted :
    IF encrypted.ret # 0 THEN [NoBytes EXCEPT !.ret = encrypted.ret]
    ELSE bigint_to_binary(u32_of_bigint(encrypted.val), encrypted_buffer_size))))

\* int rsa_4096_decrypt_binary(const rsa_4096_key_t *priv_key, const uint8_t *encrypted,
\*                             size_t encrypted_size, uint8_t *message,
\*                             size_t message_buffer_size, size_t *message_size)
rsa_4096_decrypt_binary(priv_key, encrypted, message_buffer_size) ==
    IF priv_key.is_private = 0 THEN [NoBytes EXCEPT !.ret = -2]
    ELSE IF Len(encrypted) = 0 THEN [NoBytes EXCEPT !.ret = -3]
    ELSE IF message_buffer_size = 0 THEN [NoBytes EXCEPT !.ret = -4]
    ELSE
    With(bigint_from_binary(encrypted), LAMBDA encrypted_bigint :
    IF encrypted_bigint.ret # 0 THEN [NoBytes EXCEPT !.ret = encrypted_bigint.ret]
    ELSE IF bigint_compare(bigint_of_u32(encrypted_bigint.val), priv_key.n) >= 0
    THEN [NoBytes EXCEPT !.ret = -5]
    ELSE
    With(rsa_exp(priv_key, bigint_of_u32(encrypted_bigint.val)), LAMBDA decrypted :
    IF decrypted.ret # 0 THEN [NoBytes EXCEPT !.ret = decrypted.ret]
    ELSE bigint_to_binary(u32_of_bigint(decrypted.val), message_buffer_size)))

\* Key pairs for the byte messages: those above and one whose modulus takes
\* more than one byte (323 = 17 * 19, 5 * 173 = 1 modulo 16 * 18).
BinaryKeyPairs == KeyPairs \cup {<<323, 5, 173>>}

\* The values the bytes of a message take.
MessageBytes == {0, 1, 2, 5, 34, ByteBase - 1}

\* The byte messages encrypted.
Messages == UNION {[1..n -> MessageBytes] : n \in 0..MaxMessageLen}

EncryptBinary(message) ==
    /\ call = NoCall
    /\ With(rsa_4096_encrypt_binary(key, message, BINARY_BUFFER_SIZE), LAMBDA r :
           call' = Called("rsa_4096_encrypt_binary", <<message>>, r.ret,
                          <<r.data, r.bytes_written>>))
    /\ UNCHANGED <<ctx, key, privkey>>

\* The caller decrypts the bytes rsa_4096_encrypt_binary has just given it;
\* the record keeps the message it started from as the second argument.
DecryptBinary ==
    /\ call.op = "rsa_4096_encrypt_binary"
    /\ call.ret = 0
    /\ With(SubSeq(call.out[1], 1, call.out[2]), LAMBDA encrypted :
       With(rsa_4096_decrypt_binary(privkey, encrypted, BINARY_BUFFER_SIZE), LAMBDA r :
           call' = Called("rsa_4096_decrypt_binary", <<encrypted, call.args[1]>>,
                          r.ret, <<r.data, r.bytes_written>>)))
    /\ UNCHANGED <<ctx, key, privkey>>

NextRsaBinary ==
    \/ \E pair \in BinaryKeyPairs : LoadPublicKey(pair[1], pair[2])
    \/ \E pair \in BinaryKeyPairs : LoadPrivateKey(pair[1], pair[3])
    \/ \E m \in 0..MaxValue : Encrypt(m)
    \/ \E message \in Messages : EncryptBinary(message)
    \/ DecryptBinary
    \/ Return

SpecRsaBinary == Init /\ [][NextRsaBinary]_vars

\* The number a byte string is, most significant byte first.
RECURSIVE BigEndianValue(_)
BigEndianValue(s) ==
    IF Len(s) = 0 THEN 0
    ELSE ByteBase * BigEndianValue(SubSeq(s, 1, Len(s) - 1)) + s[Len(s)]

\* C24: with the two halves of a valid key pair loaded, for every non-empty
\* byte message whose value is below n, rsa_4096_encrypt_binary succeeds and
\* rsa_4096_decrypt_binary of its output succeeds and gives back the bytes of
\* the message, as many as the message has.
C24_BinaryRoundTrip ==
    KeyPairLoaded =>
        /\ (/\ call.op = "rsa_4096_encrypt_binary"
            /\ Len(call.args[1]) > 0
            /\ BigEndianValue(call.args[1]) < Value(key.n))
               => call.ret = 0
        /\ call.op = "rsa_4096_decrypt_binary"
               => /\ call.ret = 0
                  /\ call.out[2] = Len(call.args[2])
                  /\ SubSeq(call.out[1], 1, call.out[2]) = call.args[2]

\* C25: rsa_4096_encrypt and rsa_4096_encrypt_binary fail and write no
\* ciphertext whenever the value of the message is not below n.
C25_RejectsMessageNotBelowModulus ==
    /\ (/\ call.op = "rsa_4096_encrypt"
        /\ Number(call.args[1]) >= Value(key.n))
           => (call.ret # 0 /\ call.out[1] = NoString)
    /\ (/\ call.op = "rsa_4096_encrypt_binary"
        /\ BigEndianValue(call.args[1]) >= Value(key.n))
           => (call.ret # 0 /\ call.out[1] = NoString)

------------------------------------------------------------------------------
(* C26: the edge cases of bigint_mod_exp, with and without aliasing *)

\* The moduli of the edge cases: zero in both forms, one, the small ones and
\* the 35 of the tests.
ModExpModuli ==
    {BigInt(v) : v \in 0..MaxHybridModulus} \cup {ZeroOneLimb, BigInt(35)}

\* bigint_mod_exp with result the same object as base or as exp.  The
\* function keeps its working values in locals and writes result only where
\* it returns (bigint_set_u32 or bigint_init on the early returns, bigint_copy
\* at the end), after its last read of base and exp, so the object named by
\* target ends as result and the return code is that of the call.
BigintModExpInPlace(base, exp, mod, target) ==
    /\ call = NoCall
    /\ With(bigint_mod_exp(base, exp, mod), LAMBDA r :
           call' = Called("bigint_mod_exp", <<base, exp, mod, target>>, r.ret,
                          <<r.val>>))
    /\ UNCHANGED <<ctx, key, privkey>>

NextModExp ==
    \/ \E base \in Operands, exp \in Exponents, mod \in ModExpModuli :
           BigintModExp(base, exp, mod)
    \/ \E base \in Operands, exp \in Exponents, mod \in ModExpModuli,
          target \in {"base", "exp"} :
           BigintModExpInPlace(base, exp, mod, target)
    \/ Return

SpecModExp == Init /\ [][NextModExp]_vars

ModExpCalled == call.op = "bigint_mod_exp"
ModExpBase == Value(call.args[1])
ModExpExp == Value(call.args[2])
ModExpMod == Value(call.args[3])
ModExpGives(v) == call.ret = 0 /\ Value(call.out[1]) = v

C26_WitnessUnitModulus ==
    /\ ModExpCalled
    /\ Len(call.args) = 4 /\ call.args[4] = "base"
    /\ ModExpBase = 5 /\ ModExpExp = 1 /\ ModExpMod = 1
    /\ ModExpGives(0)

------------------------------------------------------------------------------
(* C27: the window method of bigint_mod_exp.  It is taken for an exponent  *)
(* of more than WINDOW_EXP_WORDS limbs, which is beyond the numbers above, *)
(* so here the exponent is an array of limbs; the function reads it        *)
(* through bigint_get_bit and bigint_bit_length only.                      *)

\* int bigint_get_bit(const bigint_t *a, int bit_pos), on an array of limbs
bigint_get_bit_array(a, bit_pos) ==
    IF bit_pos < 0 THEN 0
    ELSE LET word_idx == bit_pos \div WordBits
             bit_idx == bit_pos % WordBits
         IN  IF word_idx >= a.used THEN 0
             ELSE (a.words[word_idx + 1] \div (2 ^ bit_idx)) % 2

\* int bigint_bit_length(const bigint_t *a), on an array of limbs
bigint_bit_length_array(a) ==
    IF bigint_is_zero_array(a) THEN 0
    ELSE LET word_idx == a.used - 1
         IN  word_idx * WordBits
                 + top_bit(a.words[word_idx + 1], WordBits - 1) + 1

\* The window extracted at bit_pos: bit (bit_pos - j) lands on bit (3 - j).
RECURSIVE window_value_array(_, _, _)
window_value_array(exp, bit_pos, j) ==
    IF j < WINDOW_BITS /\ bit_pos - j >= 0
    THEN (IF bigint_get_bit_array(exp, bit_pos - j) # 0
          THEN 2 ^ (WINDOW_BITS - 1 - j) ELSE 0)
         + window_value_array(exp, bit_pos, j + 1)
    ELSE 0

\* One turn of the loop over the windows, for the window at bit_pos: st
\* holds temp_result, started, and the return code of the first step that
\* failed.
window_turn_array(st, bit_pos, exp, mod, window_powers) ==
    IF st.ret # 0 THEN st
    ELSE
    With(window_value_array(exp, bit_pos, 0), LAMBDA window :
    IF ~st.started /\ window = 0 THEN st
    ELSE IF ~st.started
    THEN [ret |-> 0, val |-> bigint_normalize(window_powers[window]),
          started |-> TRUE]
    ELSE
    Strict(window_squarings(st.val, 0, Min(WINDOW_BITS, bit_pos + 1), mod),
           LAMBDA squared :
    IF squared.ret # 0 THEN [st EXCEPT !.ret = squared.ret]
    ELSE IF window = 0 THEN [st EXCEPT !.val = squared.val]
    ELSE
    Strict(mul_mod_step(squared.val, window_powers[window], mod),
           LAMBDA multiplied :
    IF multiplied.ret # 0 THEN [st EXCEPT !.ret = multiplied.ret]
    ELSE [st EXCEPT !.val = multiplied.val])))

\* The turns lo .. hi - 1 of the loop, in order: turn k takes the window at
\* bit exp_bits - 1 - 4 * k.
RECURSIVE window_range_array(_, _, _, _, _, _, _)
window_range_array(st, lo, hi, exp_bits, exp, mod, window_powers) ==
    IF hi <= lo THEN st
    ELSE IF hi = lo + 1
    THEN window_turn_array(st, exp_bits - 1 - WINDOW_BITS * lo, exp, mod,
                           window_powers)
    ELSE Strict(window_range_array(st, lo, (lo + hi) \div 2, exp_bits, exp, mod,
                                   window_powers), LAMBDA left :
             window_range_array(left, (lo + hi) \div 2, hi, exp_bits, exp, mod,
                                window_powers))

\* for (int bit_pos = exp_bits - 1; bit_pos >= 0; bit_pos -= 4), and the
\* copy to result after it
window_loop_array(exp, mod, window_powers) ==
    With(bigint_bit_length_array(exp), LAMBDA exp_bits :
    Strict(window_range_array([ret |-> 0, val |-> bigint_set_u32(1),
                               started |-> FALSE],
                              0, (exp_bits + WINDOW_BITS - 1) \div WINDOW_BITS,
                              exp_bits, exp, mod, window_powers), LAMBDA st :
    IF st.ret # 0 THEN [ret |-> st.ret, val |-> NoWrite]
    ELSE [ret |-> 0,
          val |-> bigint_normalize(IF st.started THEN st.val
                                   ELSE bigint_set_u32(1))]))

\* bigint_mod_exp for an exponent of more than WINDOW_EXP_WORDS limbs.
bigint_mod_exp_window(base, exp, mod) ==
    IF bigint_is_zero(mod) THEN [ret |-> -2, val |-> NoWrite]
    ELSE IF bigint_is_zero_array(exp) THEN [ret |-> 0, val |-> bigint_set_u32(1)]
    ELSE IF bigint_is_zero(base) THEN [ret |-> 0, val |-> bigint_init]
    ELSE IF mod.used = 1 /\ Word(mod, 0) = 1 THEN [ret |-> 0, val |-> bigint_init]
    ELSE
    With(bigint_mod(base, mod), LAMBDA reduced :
    IF reduced.ret # 0 THEN [ret |-> reduced.ret, val |-> NoWrite]
    ELSE
    With(bigint_normalize(reduced.val), LAMBDA temp_base :
    With(window_precompute([i \in 0..(2 ^ WINDOW_BITS - 1) |->
                               IF i = 0 THEN bigint_set_u32(1)
                               ELSE IF i = 1 THEN temp_base
                               ELSE bigint_init],
                           2, temp_base, mod),
         LAMBDA pre :
    IF pre.ret # 0 THEN [ret |-> pre.ret, val |-> NoWrite]
    ELSE window_loop_array(exp, mod, pre.powers))))

\* Largest base and largest modulus given with a long exponent.
MaxWindowBase == 5

MaxWindowModulus == 5

\* The values of the lowest limb of a long exponent.
MaxLowLimb == 7

\* Exponents of WINDOW_EXP_WORDS + 1 limbs: every top limb, so every bit
\* length from 20 limbs and one bit to 21 limbs, the limbs between zero.
LongExponents ==
    {[used |-> WINDOW_EXP_WORDS + 1,
      words |-> [i \in 1..(WINDOW_EXP_WORDS + 1) |->
                    IF i = 1 THEN low
                    ELSE IF i = WINDOW_EXP_WORDS + 1 THEN top ELSE 0] \o <<>>] :
        low \in 0..MaxLowLimb, top \in 1..WORD_MASK}

BigintModExpWindow(base, exp, mod) ==
    /\ call = NoCall
    /\ With(bigint_mod_exp_window(base, exp, mod), LAMBDA r :
           call' = Called("bigint_mod_exp", <<base, exp, mod>>, r.ret, <<r.val>>))
    /\ UNCHANGED <<ctx, key, privkey>>

NextWindow ==
    \/ \E base \in {BigInt(v) : v \in 0..MaxWindowBase}, exp \in LongExponents,
          mod \in {BigInt(v) : v \in 1..MaxWindowModulus} :
           BigintModExpWindow(base, exp, mod)
    \/ Return

SpecWindow == Init /\ [][NextWindow]_vars

\* base^exp modulo m for an exponent given as an array of limbs, limb by
\* limb from the top: the power for the limbs above limb i, raised to the
\* power WordBase, times base to the power of limb i (limb i is words[i]).
RECURSIVE PowModLimbs(_, _, _, _)
PowModLimbs(base, exp, i, m) ==
    IF i > exp.used THEN 1 % m
    ELSE Strict(PowModLimbs(base, exp, i + 1, m), LAMBDA above :
             (PowMod(above, WordBase, m) * PowMod(base, exp.words[i], m)) % m)

\* C27: for an exponent of more than WINDOW_EXP_WORDS limbs, of any bit
\* length, bigint_mod_exp succeeds and returns base^exp mod m.
C27_WindowMethodCorrect ==
    (call.op = "bigint_mod_exp" /\ call.args[2].used > WINDOW_EXP_WORDS)
        => /\ call.ret = 0
           /\ Value(call.out[1])
                  = PowModLimbs(Value(call.args[1]), call.args[2], 1,
                                Value(call.args[3]))

------------------------------------------------------------------------------
(* C29: hybrid_mod_exp and a context built for another modulus *)

\* The call was given an active context whose modulus is not the modulus
\* argument.
HybridCtxMismatch ==
    /\ HybridCalled
    /\ Len(HybridCtx) = 1
    /\ HybridCtx[1].is_active = 1
    /\ Value(HybridModulus) > 0
    /\ Value(HybridCtx[1].n) # Value(HybridModulus)

\* montgomery_exp was run by the call.
HybridRanMontgomery ==
    /\ HybridCalled
    /\ \E i \in 1..Len(HybridOps) : HybridOps[i] = "montgomery_exp"

\* hybrid_mod_exp runs montgomery_exp only with a context whose modulus is the
\* modulus argument; given a context for another modulus it runs the
\* schoolbook exponentiation only.
HybridNeverRunsMismatch ==
    /\ HybridRanMontgomery => Value(HybridCtx[1].n) = Value(HybridModulus)
    /\ HybridCtxMismatch => HybridOps = <<"bigint_mod_exp">>

\* C29: hybrid_mod_exp never runs montgomery_exp with a context whose modulus
\* differs from the modulus argument; with such a context it runs the
\* schoolbook exponentiation on the argument, and the call succeeds with
\* base^exp modulo the argument.
C29_ContextModulusMismatch ==
    /\ HybridNeverRunsMismatch
    /\ HybridCtxMismatch
           => /\ call.ret = 0
              /\ Value(HybridResult)
                     = PowMod(Value(HybridBase), Value(HybridExp), Value(HybridModulus))

-----------------------------------------------------------------------------
(* The life of one key: rsa_4096_init, the two loads, rsa_4096_free and the *)
(* four encrypt and decrypt calls, in any order.                            *)

\* int rsa_4096_load_key_binary(rsa_4096_key_t *key, const uint8_t *n_data, size_t n_size,
\*                              const uint8_t *e_data, size_t e_size, int is_private):
\* the return code and the key it leaves, from the key `old` it is given.
rsa_4096_load_key_binary(old, n_data, e_data, is_private) ==
    IF Len(n_data) = 0 \/ Len(e_data) = 0 THEN [ret |-> -2, key |-> old]
    ELSE
    With([rsa_4096_init EXCEPT !.is_private = is_private], LAMBDA k0 :
    With(bigint_from_binary(n_data), LAMBDA n :
    With([k0 EXCEPT !.n = bigint_of_u32(n.val)], LAMBDA k1 :
    IF n.ret # 0 THEN [ret |-> n.ret, key |-> k1]
    ELSE
    With(bigint_from_binary(e_data), LAMBDA e :
    With([k1 EXCEPT !.exponent = bigint_of_u32(e.val)], LAMBDA k2 :
    IF e.ret # 0 THEN [ret |-> e.ret, key |-> k2]
    ELSE IF bigint_is_zero(k2.n) THEN [ret |-> -3, key |-> k2]
    ELSE IF bigint_is_zero(k2.exponent) THEN [ret |-> -4, key |-> k2]
    ELSE IF Word(k2.n, 0) % 2 = 1
    THEN [ret |-> 0,
          key |-> [k2 EXCEPT !.mont_ctx =
                       montgomery_ctx_init(k2.mont_ctx, k2.n).ctx]]
    ELSE [ret |-> 0, key |-> k2])))))

\* The moduli and exponents the decimal loads are given; 120 is the letter x.
KeyDecimals == {Decimal(v) : v \in {0, 3, 5, 14, 15, 21, 33, 35}} \cup {<<120>>}

\* The moduli and exponents the binary loads are given (1, 67 is 323).
KeyBytes == {<<>>, <<0>>, <<3>>, <<5>>, <<14>>, <<15>>, <<21>>, <<35>>, <<1, 67>>}

\* The messages and the ciphertexts the decimal and hexadecimal calls are given.
KeyMessages == {0, 2, 5, 40}

RsaInit ==
    /\ call = NoCall
    /\ key' = rsa_4096_init
    /\ call' = Called("rsa_4096_init", <<>>, 0, <<>>)
    /\ UNCHANGED <<ctx, privkey>>

RsaFree ==
    /\ call = NoCall
    /\ key' = rsa_4096_free(key)
    /\ call' = Called("rsa_4096_free", <<>>, 0, <<>>)
    /\ UNCHANGED <<ctx, privkey>>

RsaLoadKey(n_decimal, e_decimal, is_private) ==
    /\ call = NoCall
    /\ With(rsa_4096_load_key(n_decimal, e_decimal, is_private), LAMBDA r :
           /\ key' = r.key
           /\ call' = Called("rsa_4096_load_key",
                             <<n_decimal, e_decimal, is_private>>, r.ret, <<>>))
    /\ UNCHANGED <<ctx, privkey>>

RsaLoadKeyBinary(n_data, e_data, is_private) ==
    /\ call = NoCall
    /\ With(rsa_4096_load_key_binary(key, n_data, e_data, is_private), LAMBDA r :
           /\ key' = r.key
           /\ call' = Called("rsa_4096_load_key_binary",
                             <<n_data, e_data, is_private>>, r.ret, <<>>))
    /\ UNCHANGED <<ctx, privkey>>

\* rsa_4096_decrypt of a ciphertext the caller holds, with the one key.
KeyDecrypt(c) ==
    /\ call = NoCall
    /\ With(rsa_4096_decrypt(key, Decimal(c), MESSAGE_BUFFER_SIZE), LAMBDA r :
           call' = Called("rsa_4096_decrypt", <<Decimal(c)>>, r.ret, <<r.str>>))
    /\ UNCHANGED <<ctx, key, privkey>>

\* rsa_4096_decrypt_binary of bytes the caller holds, with the one key.
KeyDecryptBinary(encrypted) ==
    /\ call = NoCall
    /\ With(rsa_4096_decrypt_binary(key, encrypted, BINARY_BUFFER_SIZE), LAMBDA r :
           call' = Called("rsa_4096_decrypt_binary", <<encrypted>>, r.ret,
                          <<r.data, r.bytes_written>>))
    /\ UNCHANGED <<ctx, key, privkey>>

NextKey ==
    \/ RsaInit
    \/ RsaFree
    \/ \E n_decimal, e_decimal \in KeyDecimals, is_private \in {0, 1} :
           RsaLoadKey(n_decimal, e_decimal, is_private)
    \/ \E n_data, e_data \in KeyBytes, is_private \in {0, 1} :
           RsaLoadKeyBinary(n_data, e_data, is_private)
    \/ \E m \in KeyMessages : Encrypt(m)
    \/ \E c \in KeyMessages : KeyDecrypt(c)
    \/ \E message \in Messages : EncryptBinary(message)
    \/ \E encrypted \in Messages : KeyDecryptBinary(encrypted)
    \/ Return

SpecKey == Init /\ [][NextKey]_vars

KeyLoads == {"rsa_4096_load_key", "rsa_4096_load_key_binary"}

KeyCrypts == {"rsa_4096_encrypt", "rsa_4096_decrypt",
              "rsa_4096_encrypt_binary", "rsa_4096_decrypt_binary"}

\* The build of a context for n from a zeroed one runs to its end.
SetupSucceeds(n) ==
    With(montgomery_ctx_init(ZeroCtx, n), LAMBDA r :
         r.ret = 0 /\ r.ctx.is_active = 1)

\* Every byte of the key is zero.
KeyIsZeroed(k) ==
    /\ k.n.used = 0 /\ k.n.words = 0
    /\ k.exponent.used = 0 /\ k.exponent.words = 0
    /\ k.is_private = 0
    /\ k.mont_ctx.is_active = 0

C30_WitnessDeclined ==
    /\ call.op = "rsa_4096_load_key"
    /\ call.ret = 0
    /\ Value(key.n) % 2 = 1
    /\ key.mont_ctx.is_active = 0

\* A call on a zeroed key has failed.
C30_WitnessFreed ==
    /\ call.op \in KeyCrypts
    /\ KeyIsZeroed(key)
    /\ call.ret # 0

====
